---- MODULE Spec2Model ----
(***************************************************************************)
(* koa-graphql: the graphqlHTTP middleware (src/src/index.ts) as a state   *)
(* machine.  One request is one run of `middleware(ctx)`; its local        *)
(* variables are the per-request state, the calls it makes to its          *)
(* collaborators (getGraphQLParams, the options function, parse, validate, *)
(* execute, extensions) are recorded in a call log, and what those         *)
(* collaborators return or throw is drawn from small sets.                 *)
(***************************************************************************)
EXTENDS Integers, Sequences, FiniteSets, TLC

\* ------------------------------------------------------------------ bounds
\* Largest number of operation definitions in a parsed document.
MaxOps == 2
\* Largest number of errors validation or execution returns.
MaxErrors == 2
\* Largest length of a string handed to safeSerialize.
MaxLen == 3

\* ------------------------------------------------------------ plain values
\* JavaScript undefined, for string-valued slots.
Nil == "undefined"
\* JavaScript null, for string-valued slots.
Null == "null"
\* `x == null` / `x != null` of JavaScript.
IsNullish(x) == x \in {Nil, Null}

\* Requests a middleware instance handles; r2 only runs in the
\* specifications about concurrent requests.
Reqs == {"r1", "r2"}

\* Operation names a document or an operationName parameter may use.
OpNames == {"TestQuery", "TestMutation"}

\* ------------------------------------------------------------------ errors
\* A thrown value.  status = 0: no status/statusCode property;
\* graphqlErrors = << >>: no graphqlErrors property; headerAllow = Nil: no
\* headers property; http: the value was raised through httpError.
Err(message, status, graphqlErrors, headerAllow) ==
  [message |-> message, status |-> status,
   graphqlErrors |-> graphqlErrors, headerAllow |-> headerAllow, http |-> FALSE]

NoErr == Err(Nil, 0, << >>, Nil)

\* An Error without HTTP properties.
PlainError(message) == Err(message, 0, << >>, Nil)

\* http-errors createError(status, message, props) for a string message:
\* a new HttpError with that status, the props copied onto it.
httpError(status, message, graphqlErrors, headerAllow) ==
  [Err(message, status, graphqlErrors, headerAllow) EXCEPT !.http = TRUE]

\* A GraphQLError as it sits in result.errors.
GraphQLError(message) == [message |-> message]

\* Messages.
MsgRequiresOptions == "GraphQL middleware requires options."
MsgOptionsMustReturnObject ==
  "GraphQL middleware option function must return an options object or a promise which will be resolved to an options object."
MsgMustContainSchema == "GraphQL middleware options must contain a schema."
MsgOnlyGetPost == "GraphQL only supports GET and POST requests."
MsgMustProvideQuery == "Must provide query string."
MsgSchemaValidation == "GraphQL schema validation error."
MsgSyntaxError == "GraphQL syntax error."
MsgValidationError == "GraphQL validation error."
MsgExecutionContext == "GraphQL execution context error."
MsgInvalidJSONBody == "POST body sent invalid JSON."
MsgMustProvideOperationName ==
  "Must provide operation name if query contains multiple operations."
MsgMustProvideOperation == "Must provide an operation."
MsgUnknownOperation == "Unknown operation named."
MsgOptionsThrew == "I did something wrong"
MsgExtensionsThrew == "extensions failed"
MsgValidateThrew == "validate failed"

\* `Can only perform a ${operationAST.operation} operation from a POST request.`
MsgCanOnlyPerform(operation) ==
  CASE operation = "mutation" ->
         "Can only perform a mutation operation from a POST request."
    [] operation = "subscription" ->
         "Can only perform a subscription operation from a POST request."
    [] OTHER -> "Can only perform a query operation from a POST request."


\* --------------------------------------------------------------- requests
\* The URL query string's GraphQL parameters (Nil: the parameter is absent).
UrlData(query, variables, operationName, raw) ==
  [query |-> query, variables |-> variables,
   operationName |-> operationName, raw |-> raw]

\* A POST body as a keyed object (kind "object"), a string or Buffer that a
\* previous middleware left (kind "string"/"buffer"), a string of the content
\* type application/graphql, kept in query (kind "graphql"), a body that is
\* not valid JSON (kind "invalidJSON"), null (kind "null"), or no body at all
\* (kind "none": undefined).
Body(kind, query, variables, operationName, raw) ==
  [kind |-> kind, query |-> query, variables |-> variables,
   operationName |-> operationName, raw |-> raw]

NoBody == Body("none", Nil, Nil, Nil, FALSE)
StringBody == Body("string", Nil, Nil, Nil, FALSE)
BufferBody == Body("buffer", Nil, Nil, Nil, FALSE)
InvalidJSONBody == Body("invalidJSON", Nil, Nil, Nil, FALSE)
NullBody == Body("null", Nil, Nil, Nil, FALSE)
GraphQLStringBody(query) == Body("graphql", query, Nil, Nil, FALSE)

\* The request of one run.  nodeBody is ctx.req.body, koaBody is
\* ctx.request.body, stream is what reading the raw request body gives when
\* no middleware has parsed it.
Request(method, acceptsHtml, url, nodeBody, koaBody, stream) ==
  [method |-> method, acceptsHtml |-> acceptsHtml, url |-> url,
   nodeBody |-> nodeBody, koaBody |-> koaBody, stream |-> stream]

Methods == {"GET", "POST", "PUT"}

\* --------------------------------------------------------------- GraphQL
\* GraphQLParams {query, variables, operationName, raw}.
Params(query, variables, operationName, raw) ==
  [query |-> query, variables |-> variables,
   operationName |-> operationName, raw |-> raw]

\* `params` before getGraphQLParams has returned.
NoParams == [undefined |-> TRUE]

\* An operation definition of a document; name = Nil for an anonymous one.
Operation(name, operation) == [name |-> name, operation |-> operation]

NoOperation == Operation(Nil, Nil)

RECURSIVE SeqsUpTo(_, _)
\* Sequences over S of length at most n.
SeqsUpTo(S, n) ==
  IF n = 0 THEN {<< >>}
  ELSE LET shorter == SeqsUpTo(S, n - 1)
       IN shorter \cup {Append(s, x) : s \in {t \in shorter : Len(t) = n - 1}, x \in S}

\* Sequences without a repeated element.
IsInjective(s) == \A i, j \in 1..Len(s) : s[i] = s[j] => i = j

\* The operation definitions a document may hold.
OperationDefs ==
  {Operation("TestQuery", "query"), Operation("TestMutation", "mutation"),
   Operation("TestSubscription", "subscription")}

\* The documents a parse function may return: up to MaxOps operation
\* definitions with distinct names, in any order (the empty document holds
\* fragments only).
Documents == {d \in SeqsUpTo(OperationDefs, MaxOps) : IsInjective(d)}

\* `documentAST` before the parse function has returned.
NoDocument == <<NoOperation>>

\* ExecutionResult {data, errors}; errors = << >> stands for no errors key.
Result(data, errors) == [data |-> data, errors |-> errors, extensions |-> Nil]

NoResult == Result(Nil, << >>)


\* Mutant of getOperationAST: the operation name is not looked at.
getOperationAST_IgnoresName(documentAST, operationName) ==
  IF Len(documentAST) = 1 THEN documentAST[1] ELSE NoOperation

\* graphql-js getOperationAST(documentAST, operationName): without a name the
\* only operation of the document, or null when there are several; with a
\* name the first operation of that name, or null.
getOperationAST(documentAST, operationName) ==
  IF IsNullish(operationName)
  THEN IF Len(documentAST) = 1 THEN documentAST[1] ELSE NoOperation
  ELSE LET hits == {i \in 1..Len(documentAST) : documentAST[i].name = operationName}
       IN IF hits = {} THEN NoOperation
          ELSE documentAST[CHOOSE i \in hits : \A j \in hits : i <= j]

\* The i-th error a collaborator reports.
NthError(prefix, i) ==
  GraphQLError(CASE i = 1 -> prefix \o " 1" [] i = 2 -> prefix \o " 2"
                 [] i = 3 -> prefix \o " 3" [] OTHER -> prefix \o " n")

\* The error lists validation may return: none, or the first n errors in
\* either order.
ValidationErrorLists ==
  {<< >>}
  \cup {[i \in 1..n |-> NthError("validation error", i)] : n \in 1..MaxErrors}
  \cup {[i \in 1..n |-> NthError("validation error", n + 1 - i)] : n \in 2..MaxErrors}

\* The field errors of an execution that met n of them.
FieldErrors(n) == [i \in 1..n |-> NthError("field error", i)]

\* What executing a selected operation may give: data with 0..MaxErrors field
\* errors, or null data with the error of a non-null top-level field.
FieldResults ==
  {Result("data", FieldErrors(n)) : n \in 0..MaxErrors}
  \cup {Result(Null, FieldErrors(1))}

\* graphql-js execute: the operation to run is chosen as buildExecutionContext
\* does; a document whose operation cannot be chosen gives errors and no data.
OperationSelectionErrors(documentAST, operationName) ==
  IF IsNullish(operationName)
  THEN IF Len(documentAST) > 1 THEN <<GraphQLError(MsgMustProvideOperationName)>>
       ELSE IF Len(documentAST) = 0 THEN <<GraphQLError(MsgMustProvideOperation)>>
       ELSE << >>
  ELSE IF \E i \in 1..Len(documentAST) : documentAST[i].name = operationName
       THEN << >>
       ELSE <<GraphQLError(MsgUnknownOperation)>>

\* The results the default execute may return for a document.
DefaultExecuteResults(documentAST, operationName) ==
  IF OperationSelectionErrors(documentAST, operationName) # << >>
  THEN {Result(Nil, OperationSelectionErrors(documentAST, operationName))}
  ELSE FieldResults

\* The results a customExecuteFn may return: it is free in what it does with
\* the document.
CustomExecuteResults ==
  FieldResults \cup {Result(Nil, <<GraphQLError(MsgMustProvideOperationName)>>)}

\* graphql-js specifiedRules: the validation rules of the GraphQL
\* specification (two of them stand for the list).
specifiedRules == <<"ExecutableDefinitionsRule", "FieldsOnCorrectTypeRule">>

\* A validation rule an application may add: it reports an error for every
\* document.
AlwaysInvalidRule == "AlwaysInvalidRule"

MsgAlwaysInvalid == "AlwaysInvalidRule was really invalid!"

\* The errors the added rules among `rules` report for a document.
AddedRuleErrors(rules) ==
  [i \in 1..Len(SelectSeq(rules, LAMBDA rule : rule = AlwaysInvalidRule)) |->
     GraphQLError(MsgAlwaysInvalid)]

\* graphql-js validateSchema(schema).
validateSchema(schema) ==
  IF schema = "invalidSchema" THEN <<GraphQLError("schema error")>> ELSE << >>


\* ---------------------------------------------------------------- options
\* OptionsData (index.ts:52-147).  A field is Nil when the option is not
\* given; isObject = FALSE stands for a value that is no object (null).
OptionsData(schema, context, pretty, graphiql, customFormatErrorFn, formatError, customParseFn, customValidateFn, customExecuteFn, extensions) ==
  [isObject |-> TRUE, schema |-> schema, context |-> context, pretty |-> pretty,
   graphiql |-> graphiql, customFormatErrorFn |-> customFormatErrorFn,
   formatError |-> formatError, customParseFn |-> customParseFn,
   customValidateFn |-> customValidateFn, customExecuteFn |-> customExecuteFn,
   extensions |-> extensions, validationRules |-> [given |-> FALSE, rules |-> << >>],
   graphiqlOptions |-> [given |-> FALSE]]

\* An OptionsData value with the validationRules option: a list of rules.
WithValidationRules(od, rules) ==
  [od EXCEPT !.validationRules = [given |-> TRUE, rules |-> rules]]

\* An OptionsData value whose graphiql option is a GraphiQLOptions object
\* (index.ts:132  graphiql?: boolean | GraphiQLOptions).
WithGraphiQLOptions(od, graphiqlOptions) ==
  [od EXCEPT !.graphiql = "object",
             !.graphiqlOptions = [given |-> TRUE, value |-> graphiqlOptions]]

\* null where an options object is expected.
NotAnObject ==
  [OptionsData(Nil, Nil, Nil, Nil, Nil, Nil, Nil, Nil, Nil, Nil)
     EXCEPT !.isObject = FALSE]

\* `optionsData` before options resolution has succeeded.
NoOptionsData == NotAnObject

\* The ways Options can be given (index.ts:39-50): the object itself, a
\* Promise for it, a function returning it, a function returning a Promise
\* for it.
OptionForms == {"object", "promise", "function", "asyncFunction"}

\* What a call of the options function (or awaiting the options value) gives:
\* a value, or a thrown error / rejected Promise.
OptionsYield(threw, value) == [threw |-> threw, value |-> value]

\* The status property an error thrown by user code may carry (0: none).
ThrownStatuses == {0, 403}

\* The errors an options function may throw.
OptionsErrors == {Err(MsgOptionsThrew, st, << >>, Nil) : st \in ThrownStatuses}

\* The errors an extensions function may throw.
ExtensionsErrors == {Err(MsgExtensionsThrew, st, << >>, Nil) : st \in ThrownStatuses}

\* The first of two values that is not null/undefined: JavaScript's `a ?? b`.
Coalesce(a, b) == IF IsNullish(a) THEN b ELSE a

\* ------------------------------------------------- parameter extraction
\* What a body of the content type application/graphql is parsed to.
QueryOnly(body) == Body("object", body.query, Nil, Nil, FALSE)

\* express-graphql parseBody(req): a keyed object (null is one, to typeof) is
\* used as it is; a string of the content type application/graphql is the
\* query; another string or Buffer left by an earlier middleware is not
\* recognised and gives no parameters; otherwise the raw request body is read
\* and parsed.  threw # NoErr: the body could not be parsed.
ParseBody(nodeBody, stream) ==
  CASE nodeBody.kind \in {"object", "null"} -> [threw |-> NoErr, data |-> nodeBody]
    [] nodeBody.kind = "graphql" -> [threw |-> NoErr, data |-> QueryOnly(nodeBody)]
    [] nodeBody.kind \in {"string", "buffer"} -> [threw |-> NoErr, data |-> NoBody]
    [] stream.kind = "invalidJSON" ->
         [threw |-> httpError(400, MsgInvalidJSONBody, << >>, Nil), data |-> NoBody]
    [] stream.kind = "graphql" -> [threw |-> NoErr, data |-> QueryOnly(stream)]
    [] OTHER -> [threw |-> NoErr, data |-> stream]

\* A parameter as getGraphQLParams normalises it: a string, or null.
StringOrNull(v) == IF IsNullish(v) THEN Null ELSE v

\* Mutant of GetGraphQLParamsOf: the body is looked at before the URL.
GetGraphQLParamsOf_BodyFirst(url, bodyData) ==
  Params(StringOrNull(Coalesce(bodyData.query, url.query)),
         StringOrNull(Coalesce(bodyData.variables, url.variables)),
         StringOrNull(Coalesce(bodyData.operationName, url.operationName)),
         (~IsNullish(url.raw)) \/ bodyData.raw)

\* Mutant of GetGraphQLParamsOf: the raw parameter is not looked at.
GetGraphQLParamsOf_NoRaw(url, bodyData) ==
  Params(StringOrNull(Coalesce(url.query, bodyData.query)),
         StringOrNull(Coalesce(url.variables, bodyData.variables)),
         StringOrNull(Coalesce(url.operationName, bodyData.operationName)),
         FALSE)

\* express-graphql getGraphQLParams(request): each parameter is taken from
\* the URL query string and, when absent there, from the body.
GetGraphQLParamsOf(url, bodyData) ==
  Params(StringOrNull(Coalesce(url.query, bodyData.query)),
         StringOrNull(Coalesce(url.variables, bodyData.variables)),
         StringOrNull(Coalesce(url.operationName, bodyData.operationName)),
         (~IsNullish(url.raw)) \/ bodyData.raw)

\* The outcome of `await getGraphQLParams(expressReq)`.  A body that is null
\* has no properties to read: looking a parameter up in it, the URL not
\* giving it, throws a TypeError.
getGraphQLParams(req) ==
  LET parsed == ParseBody(req.nodeBody, req.stream)
  IN IF parsed.threw # NoErr
     THEN [threw |-> parsed.threw, params |-> NoParams]
     ELSE IF /\ parsed.data.kind = "null"
             /\ \E v \in {req.url.query, req.url.variables,
                           req.url.operationName, req.url.raw} : IsNullish(v)
     THEN [threw |-> PlainError("Cannot read properties of null"),
           params |-> NoParams]
     ELSE [threw |-> NoErr, params |-> GetGraphQLParamsOf(req.url, parsed.data)]

\* Mutant of DefaultedBody: the body of the Koa request always replaces the
\* body of the Node request.
DefaultedBody_AlwaysKoa(nodeBody, koaBody) == koaBody

\* index.ts:177  expressReq.body = expressReq.body ?? request.body
DefaultedBody(nodeBody, koaBody) ==
  IF nodeBody.kind \in {"none", "null"} THEN koaBody ELSE nodeBody


\* --------------------------------------------------------------- response
\* graphql-js formatError and the two user-supplied formatters: each gives
\* the formatted error; `by` records which formatter produced it.
FormatWith(formatErrorFn, error) == [message |-> error.message, by |-> formatErrorFn]

\* result.errors?.map(formatErrorFn)
FormatErrors(formatErrorFn, errors) ==
  [i \in 1..Len(errors) |-> FormatWith(formatErrorFn, errors[i])]

\* The response body.  kind "none": nothing written; "json": the JSON text of
\* a result; "html": the IDE page.  keys are the keys the JSON text holds
\* (JSON.stringify leaves out a key whose value is undefined); for the IDE
\* page they are the keys of the result embedded in the page, and hasResult
\* tells whether a result was embedded at all.
ResponseBody(kind, pretty, hasResult, keys, data, errors, extensions) ==
  [kind |-> kind, pretty |-> pretty, hasResult |-> hasResult, keys |-> keys,
   data |-> data, errors |-> errors, extensions |-> extensions]

NoResponseBody == ResponseBody("none", FALSE, FALSE, {}, Nil, << >>, Nil)

\* The keys JSON.stringify writes for a formatted result.
JsonKeys(formatted) ==
  (IF formatted.data # Nil THEN {"data"} ELSE {})
  \cup (IF formatted.errors # << >> THEN {"errors"} ELSE {})
  \cup (IF formatted.extensions # Nil THEN {"extensions"} ELSE {})

\* JSON.stringify(formattedResult) / JSON.stringify(formattedResult, null, 2)
JsonBody(formatted, pretty) ==
  ResponseBody("json", pretty, TRUE, JsonKeys(formatted), formatted.data,
               formatted.errors, formatted.extensions)

\* respondWithGraphiQL without a result.
GraphiQLPage ==
  ResponseBody("html", FALSE, FALSE, {}, Nil, << >>, Nil)

\* respondWithGraphiQL with the formatted result: the page embeds the result
\* pretty-printed.
GraphiQLPageWith(formatted) ==
  ResponseBody("html", FALSE, TRUE, JsonKeys(formatted), formatted.data,
               formatted.errors, formatted.extensions)

\* The Koa response: status (404 until something sets it), whether the status
\* was set explicitly, the Content-Type, the Allow header and the body.
Response(status, explicitStatus, type, allow, body) ==
  [status |-> status, explicitStatus |-> explicitStatus, type |-> type,
   allow |-> allow, body |-> body]

NewResponse == Response(404, FALSE, Nil, Nil, NoResponseBody)

\* Koa `response.status = code`.
SetStatus(resp, code) == [resp EXCEPT !.status = code, !.explicitStatus = TRUE]

\* Koa `response.type = t; response.body = b`: writing a body makes the status
\* 200 unless a status was set explicitly.
SetBody(resp, type, body) ==
  [resp EXCEPT !.type = type, !.body = body,
               !.status = IF resp.explicitStatus THEN resp.status ELSE 200]

\* Mutant of ReportedStatus: a thrown value that carries a status property
\* of its own is reported with it.
ReportedStatus_OwnStatus(rawError) ==
  IF rawError.status # 0 THEN rawError.status ELSE 500

\* The status of the response to a caught error (spec.md, sections 6 and 7:
\* each class of error has a fixed status): an error that the middleware or
\* the parameter extraction raised through httpError has the status it was
\* raised with; any other thrown value is an internal error, 500, whatever
\* properties it carries.
ReportedStatus(rawError) == IF rawError.http THEN rawError.status ELSE 500

\* express-graphql canDisplayGraphiQL(request, params): no raw parameter and
\* the request prefers HTML over JSON.
canDisplayGraphiQL(req, p) == (~p.raw) /\ req.acceptsHtml


\* --------------------------------------------------------------- IDE page
\* JavaScript values as renderGraphiQL meets them.  A string is the sequence
\* of its characters.
JsUndefined == [type |-> "undefined"]
JsNull == [type |-> "null"]
JsBoolean(b) == [type |-> "boolean", bool |-> b]
\* A number; nan: it is NaN.
JsNumber(num, nan) == [type |-> "number", num |-> num, nan |-> nan]
JsString(chars) == [type |-> "string", chars |-> chars]
\* An object given for editorTheme; a key it lacks is JsUndefined.
JsObject(name, url) == [type |-> "object", name |-> name, url |-> url]

\* The characters of the strings followed: those of a closing tag, the two
\* that JSON escapes, and a letter.
Chars == {"<", "/", "\\", "\"", "s"}

\* The text `undefined`, `true` and `false`.
TextUndefined == <<"u", "n", "d", "e", "f", "i", "n", "e", "d">>
TextTrue == <<"t", "r", "u", "e">>
TextFalse == <<"f", "a", "l", "s", "e">>

RECURSIVE Escaped(_)
\* The characters of a string as JSON.stringify writes them between the
\* quotes: a quote and a backslash get a backslash in front.
Escaped(chars) ==
  IF chars = << >> THEN << >>
  ELSE (IF Head(chars) \in {"\"", "\\"} THEN <<"\\", Head(chars)>> ELSE <<Head(chars)>>)
       \o Escaped(Tail(chars))

\* JSON.stringify(data) for a string or a boolean.
JSONStringify(data) ==
  IF data.type = "string" THEN <<"\"">> \o Escaped(data.chars) \o <<"\"">>
  ELSE IF data.bool THEN TextTrue ELSE TextFalse

RECURSIVE ReplaceSlashes(_)
\* text.replace(/\//g, '\\/'): every slash gets a backslash in front.
ReplaceSlashes(text) ==
  IF text = << >> THEN << >>
  ELSE (IF Head(text) = "/" THEN <<"\\", "/">> ELSE <<Head(text)>>)
       \o ReplaceSlashes(Tail(text))

RECURSIVE ReplaceFirstSlash(_)
\* text.replace(/\//, '\\/'): the first slash gets a backslash in front.
ReplaceFirstSlash(text) ==
  IF text = << >> THEN << >>
  ELSE IF Head(text) = "/" THEN <<"\\", "/">> \o Tail(text)
  ELSE <<Head(text)>> \o ReplaceFirstSlash(Tail(text))

\* Mutant of safeSerialize: the regular expression lacks the g flag.
safeSerialize_FirstOnly(data) ==
  IF data.type \notin {"null", "undefined"}
  THEN ReplaceFirstSlash(JSONStringify(data))
  ELSE TextUndefined

\* renderGraphiQL.ts:64-69  Ensures string values are safe to be used within
\* a <script> tag.
safeSerialize(data) ==
  IF data.type \notin {"null", "undefined"}
  THEN ReplaceSlashes(JSONStringify(data))
  ELSE TextUndefined

\* renderGraphiQL.ts:62
CODE_MIRROR_VERSION == "5.53.2"

\* A <link rel="stylesheet"> element: href is the list of the pieces it is
\* put together from.  NoLink stands for the empty text.
Link(href) == [href |-> href]
NoLink == Link(<< >>)

\* EditorTheme {name, link}; NoEditorTheme: getEditorThemeParams returned
\* undefined.
EditorTheme(name, link) == [name |-> name, link |-> link]
NoEditorTheme == [undefined |-> TRUE]

\* The start of the message of the error getEditorThemeParams throws (the
\* value provided follows it).
MsgInvalidEditorTheme == "invalid parameter \"editorTheme\""

\* JavaScript truthiness of a value.
Truthy(v) ==
  CASE v.type \in {"undefined", "null"} -> FALSE
    [] v.type = "boolean" -> v.bool
    [] v.type = "string" -> v.chars # << >>
    [] v.type = "number" -> (~v.nan) /\ v.num # 0
    [] OTHER -> TRUE

\* Mutant of getEditorThemeParams: name and url need only be strings.
getEditorThemeParams_AcceptsEmpty(editorTheme) ==
  IF editorTheme.type \in {"undefined", "null"}
  THEN [threw |-> NoErr, theme |-> NoEditorTheme]
  ELSE IF editorTheme.type = "string"
  THEN [threw |-> NoErr,
        theme |-> EditorTheme(editorTheme.chars,
                    Link(<<"https://cdnjs.cloudflare.com/ajax/libs/codemirror/",
                           CODE_MIRROR_VERSION, "/theme/">>
                         \o editorTheme.chars \o <<".css">>))]
  ELSE IF /\ editorTheme.type = "object"
          /\ editorTheme.name.type = "string"
          /\ editorTheme.url.type = "string"
  THEN [threw |-> NoErr,
        theme |-> EditorTheme(editorTheme.name.chars, Link(editorTheme.url.chars))]
  ELSE [threw |-> PlainError(MsgInvalidEditorTheme), theme |-> NoEditorTheme]

\* renderGraphiQL.ts:74-106
getEditorThemeParams(editorTheme) ==
  IF editorTheme.type \in {"undefined", "null"}
  THEN [threw |-> NoErr, theme |-> NoEditorTheme]
  ELSE IF editorTheme.type = "string"
  THEN [threw |-> NoErr,
        theme |-> EditorTheme(editorTheme.chars,
                    Link(<<"https://cdnjs.cloudflare.com/ajax/libs/codemirror/",
                           CODE_MIRROR_VERSION, "/theme/">>
                         \o editorTheme.chars \o <<".css">>))]
  ELSE IF /\ editorTheme.type = "object"
          /\ Truthy(editorTheme.name)
          /\ editorTheme.name.type = "string"
          /\ Truthy(editorTheme.url)
          /\ editorTheme.url.type = "string"
  THEN [threw |-> NoErr,
        theme |-> EditorTheme(editorTheme.name.chars, Link(editorTheme.url.chars))]
  ELSE [threw |-> PlainError(MsgInvalidEditorTheme), theme |-> NoEditorTheme]

\* GraphiQLOptions, by the two options followed.
GraphiQLOptions(subscriptionEndpoint, editorTheme) ==
  [subscriptionEndpoint |-> subscriptionEndpoint, editorTheme |-> editorTheme]

\* The page renderGraphiQL returns, by the parts followed: the stylesheet
\* link of the theme and the serialized subscription endpoint.
Page(themeLink, subscriptionEndpoint) ==
  [themeLink |-> themeLink, subscriptionEndpoint |-> subscriptionEndpoint]

NoPage == [undefined |-> TRUE]

\* renderGraphiQL(data, options): the theme is worked out before the page is
\* put together, so an invalid editorTheme leaves no page.
renderGraphiQL(graphiqlOptions) ==
  LET editorTheme == getEditorThemeParams(graphiqlOptions.editorTheme)
  IN IF editorTheme.threw # NoErr
     THEN [threw |-> editorTheme.threw, editorTheme |-> NoEditorTheme, page |-> NoPage]
     ELSE [threw |-> NoErr, editorTheme |-> editorTheme.theme,
           page |-> Page(IF editorTheme.theme # NoEditorTheme
                         THEN editorTheme.theme.link ELSE NoLink,
                         safeSerialize(graphiqlOptions.subscriptionEndpoint))]

\* index.ts:167  graphiqlOptions: the GraphiQLOptions object given for the
\* graphiql option; undefined when the option is a boolean, which
\* renderGraphiQL reads as an object without options.
GraphiqlOptionsOf(od) ==
  IF od.graphiqlOptions.given THEN od.graphiqlOptions.value
  ELSE GraphiQLOptions(JsUndefined, JsUndefined)


\* ------------------------------------------------------------------ state
VARIABLES
  options,          \* the value given to graphqlHTTP(options): [form, yield]
  request,          \* per request: the incoming request (ctx.req / ctx.request)
  response,         \* per request: ctx.response
  pc,               \* per request: where the run of middleware(ctx) stands
  params,           \* per request: `params`
  paramsError,      \* per request: `error` of the inner catch block
  optionsData,      \* per request: `optionsData`
  showGraphiQL,     \* per request: `showGraphiQL`
  formatErrorFn,    \* per request: `formatErrorFn`
  pretty,           \* per request: `pretty`
  documentAST,      \* per request: `documentAST`
  validationErrors, \* per request: `validationErrors`
  result,           \* per request: `result`
  rawError,         \* per request: the value the outer try block threw
  executeArgs,      \* per request: the arguments executeFn was called with
  optionsCalls,     \* per request: the arguments of each options function call
  calls,            \* per request: the collaborators called so far, in order
  validateArgs,     \* per request: the rules validateFn was called with
  middleware,       \* what the call graphqlHTTP(options) gave
  renderArgs,       \* the arguments of a call of renderGraphiQL
  rendered          \* what that call gave

vars ==
  <<options, request, response, pc, params, paramsError, optionsData,
    showGraphiQL, formatErrorFn, pretty, documentAST, validationErrors, result,
    rawError, executeArgs, optionsCalls, calls, validateArgs, middleware,
    renderArgs, rendered>>

\* The arguments of a call of the options function.
OptionsArgs(req, res, ctx, requestParams) ==
  [request |-> req, response |-> res, ctx |-> ctx, params |-> requestParams]

\* The arguments of a call of executeFn that the model follows.
ExecuteArgs(contextValue, operationName) ==
  [contextValue |-> contextValue, operationName |-> operationName]

NoExecuteArgs == ExecuteArgs(Nil, Nil)

\* The rules of a call of validateFn; none before the call.
NoValidateArgs == << >>

\* What graphqlHTTP(options) gives: the middleware function, or the error it
\* throws; neither before the call.
Middleware(returned, threw) == [returned |-> returned, threw |-> threw]

NotConstructed == Middleware(FALSE, NoErr)

\* No call of renderGraphiQL is followed.
NoRenderArgs == [undefined |-> TRUE]
NotRendered == [undefined |-> TRUE]

\* index.ts:155-158  graphqlHTTP(options) has returned the middleware, which
\* is mounted.
Mounted ==
  /\ middleware = Middleware(TRUE, NoErr)
  /\ renderArgs = NoRenderArgs
  /\ rendered = NotRendered

\* The request of a run that has not started.
IdleRequest ==
  Request("GET", FALSE, UrlData(Null, Null, Null, Null), NoBody, NoBody, NoBody)

\* index.ts:165-170
InitLocals ==
  /\ params = [r \in Reqs |-> NoParams]
  /\ paramsError = [r \in Reqs |-> NoErr]
  /\ optionsData = [r \in Reqs |-> NoOptionsData]
  /\ showGraphiQL = [r \in Reqs |-> FALSE]
  /\ formatErrorFn = [r \in Reqs |-> "formatError"]
  /\ pretty = [r \in Reqs |-> FALSE]
  /\ documentAST = [r \in Reqs |-> NoDocument]
  /\ validationErrors = [r \in Reqs |-> << >>]
  /\ result = [r \in Reqs |-> NoResult]
  /\ rawError = [r \in Reqs |-> NoErr]
  /\ executeArgs = [r \in Reqs |-> NoExecuteArgs]
  /\ optionsCalls = [r \in Reqs |-> << >>]
  /\ calls = [r \in Reqs |-> << >>]
  /\ validateArgs = [r \in Reqs |-> NoValidateArgs]

\* `calls` with one more collaborator call.
Called(r, fn) == calls' = [calls EXCEPT ![r] = Append(@, fn)]

\* Mutant of Throw: the error leaves the middleware uncaught, and no response
\* is written.
Throw_Unhandled(r, error) ==
  /\ rawError' = [rawError EXCEPT ![r] = error]
  /\ pc' = [pc EXCEPT ![r] = "done"]

\* index.ts:172  A throw inside the outer try block: control passes to its
\* catch clause.
Throw(r, error) ==
  /\ rawError' = [rawError EXCEPT ![r] = error]
  /\ pc' = [pc EXCEPT ![r] = "catch"]


\* ---------------------------------------------------------------- actions
\* index.ts:174-179  The body of the Koa request is used when the Node request
\* has none, and getGraphQLParams is called; the run then waits for its
\* promise.
GetParams(r) ==
  /\ pc[r] = "getParams"
  /\ request' =
       [request EXCEPT ![r].nodeBody =
          DefaultedBody(request[r].nodeBody, request[r].koaBody)]
  /\ Called(r, "getGraphQLParams")
  /\ pc' = [pc EXCEPT ![r] = "awaitParams"]
  /\ UNCHANGED <<middleware, renderArgs, rendered, validateArgs,
                 options, response, params, paramsError, optionsData,
                 showGraphiQL, formatErrorFn, pretty, documentAST,
                 validationErrors, result, rawError, executeArgs, optionsCalls>>

\* Mutant of AssignParams: a failure of the extraction is swallowed, and the
\* run goes on with the parameters of the URL.
AssignParams_SwallowsFailure(r) ==
  /\ pc[r] = "awaitParams"
  /\ LET got == getGraphQLParams(request[r])
     IN /\ paramsError' = [paramsError EXCEPT ![r] = got.threw]
        /\ params' = [params EXCEPT ![r] =
                        IF got.threw = NoErr THEN got.params
                        ELSE GetGraphQLParamsOf(request[r].url, NoBody)]
        /\ pc' = [pc EXCEPT ![r] = "resolveOptions"]
  /\ UNCHANGED <<middleware, renderArgs, rendered, validateArgs,
                 options, request, response, optionsData, showGraphiQL,
                 formatErrorFn, pretty, documentAST, validationErrors, result,
                 rawError, executeArgs, optionsCalls, calls>>

\* index.ts:179-180  The promise of getGraphQLParams has settled: its value
\* is assigned to params, or its error is caught by the inner catch clause.
AssignParams(r) ==
  /\ pc[r] = "awaitParams"
  /\ LET got == getGraphQLParams(request[r])
     IN IF got.threw = NoErr
        THEN /\ params' = [params EXCEPT ![r] = got.params]
             /\ pc' = [pc EXCEPT ![r] = "resolveOptions"]
             /\ UNCHANGED paramsError
        ELSE /\ paramsError' = [paramsError EXCEPT ![r] = got.threw]
             /\ pc' = [pc EXCEPT ![r] = "resolveOptionsNoParams"]
             /\ UNCHANGED params
  /\ UNCHANGED <<middleware, renderArgs, rendered, validateArgs,
                 options, request, response, optionsData, showGraphiQL,
                 formatErrorFn, pretty, documentAST, validationErrors, result,
                 rawError, executeArgs, optionsCalls, calls>>

\* The value given to graphqlHTTP: its form and, for each request, what
\* resolving it yields.  An object yields itself for every request; a Promise
\* yields what it settles to, the same for every request; a function yields
\* what it returns or throws when called for that request.
Options(form, yield) == [form |-> form, yield |-> yield]

\* graphqlHTTP(data) for an options object.
ObjectOptions(data) == Options("object", [r \in Reqs |-> OptionsYield(NoErr, data)])

\* What a call of an options function, or a Promise given for the options,
\* may yield: one of datas, null, or a thrown error (a rejection).
FunctionYields(datas) ==
  {OptionsYield(NoErr, d) : d \in datas \cup {NotAnObject}}
  \cup {OptionsYield(e, NotAnObject) : e \in OptionsErrors}

\* graphqlHTTP(promise) for a Promise that settles to yield.
PromiseOptions(yield) == Options("promise", [r \in Reqs |-> yield])

\* typeof options === 'function'
IsFunction(value) == value.form \in {"function", "asyncFunction"}

\* resolveOptions(requestParams): the options function is called with the
\* request, the response, the ctx and requestParams, and what it gives must be
\* an object.
resolveOptions(yield) ==
  IF yield.threw # NoErr THEN yield
  ELSE IF ~yield.value.isObject
       THEN OptionsYield(PlainError(MsgOptionsMustReturnObject), NotAnObject)
       ELSE yield

\* `optionsCalls` after a resolution with requestParams: only a function is
\* called.
OptionsCalled(r, requestParams) ==
  /\ optionsCalls' =
       [optionsCalls EXCEPT ![r] =
          IF IsFunction(options)
          THEN Append(@, OptionsArgs(r, r, r, requestParams)) ELSE @]
  /\ calls' = [calls EXCEPT ![r] =
                 IF IsFunction(options) THEN Append(@, "options") ELSE @]

\* Mutant of PrettyOf: the JSON is pretty-printed unless the options say
\* otherwise.
PrettyOf_DefaultTrue(od) == IF IsNullish(od.pretty) THEN TRUE ELSE od.pretty = "true"

\* index.ts:184  optionsData.pretty ?? false
PrettyOf(od) == IF IsNullish(od.pretty) THEN FALSE ELSE od.pretty = "true"

\* Mutant of FormatErrorFnOf: the deprecated formatError option is looked at
\* first.
FormatErrorFnOf_DeprecatedFirst(od, current) ==
  Coalesce(od.formatError, Coalesce(od.customFormatErrorFn, current))

\* Mutant of FormatErrorFnOf: the formatter in place is forgotten when the
\* options name none.
FormatErrorFnOf_NoDefault(od, current) ==
  Coalesce(od.customFormatErrorFn, od.formatError)

\* index.ts:185-188
\* optionsData.customFormatErrorFn ?? optionsData.formatError ?? formatErrorFn
FormatErrorFnOf(od, current) ==
  Coalesce(od.customFormatErrorFn, Coalesce(od.formatError, current))

\* Mutant of ResolveOptionsNoParams: the parse error is thrown again at once,
\* the options not being resolved.
ResolveOptionsNoParams_SkipsOptions(r) ==
  /\ pc[r] = "resolveOptionsNoParams"
  /\ Throw(r, paramsError[r])
  /\ UNCHANGED <<middleware, renderArgs, rendered, validateArgs,
                 options, request, response, params, paramsError,
                 optionsData, showGraphiQL, documentAST, validationErrors,
                 result, executeArgs, pretty, formatErrorFn, optionsCalls, calls>>

\* index.ts:180-183  The parameters could not be parsed: resolveOptions is
\* called without them, and the run waits for its promise.
ResolveOptionsNoParams(r) ==
  /\ pc[r] = "resolveOptionsNoParams"
  /\ OptionsCalled(r, NoParams)
  /\ pc' = [pc EXCEPT ![r] = "awaitOptionsNoParams"]
  /\ UNCHANGED <<middleware, renderArgs, rendered, validateArgs,
                 options, request, response, params, paramsError,
                 optionsData, showGraphiQL, documentAST, validationErrors,
                 result, executeArgs, pretty, formatErrorFn, rawError>>

\* Mutant of RethrowParamsError: the parse error is not thrown again, so the
\* run falls through to the second resolution of the options and fails on the
\* parameters it does not have.
RethrowParamsError_FallsThrough(r) ==
  /\ pc[r] = "awaitOptionsNoParams"
  /\ LET got == resolveOptions(options.yield[r])
     IN IF got.threw # NoErr
        THEN /\ Throw(r, got.threw)
             /\ UNCHANGED <<pretty, formatErrorFn, optionsCalls, calls>>
        ELSE /\ pretty' = [pretty EXCEPT ![r] = PrettyOf(got.value)]
             /\ formatErrorFn' =
                  [formatErrorFn EXCEPT ![r] = FormatErrorFnOf(got.value, @)]
             /\ OptionsCalled(r, NoParams)
             /\ Throw(r, PlainError("Cannot read properties of undefined"))
  /\ UNCHANGED <<middleware, renderArgs, rendered, validateArgs,
                 options, request, response, params, paramsError,
                 optionsData, showGraphiQL, documentAST, validationErrors,
                 result, executeArgs>>

\* Mutant of RethrowParamsError: a failure of the options resolution is
\* dropped and the parse error is thrown again all the same.
RethrowParamsError_DropsFailure(r) ==
  /\ pc[r] = "awaitOptionsNoParams"
  /\ LET got == resolveOptions(options.yield[r])
     IN /\ IF got.threw # NoErr
           THEN UNCHANGED <<pretty, formatErrorFn>>
           ELSE /\ pretty' = [pretty EXCEPT ![r] = PrettyOf(got.value)]
                /\ formatErrorFn' =
                     [formatErrorFn EXCEPT ![r] = FormatErrorFnOf(got.value, @)]
        /\ Throw(r, paramsError[r])
  /\ UNCHANGED <<middleware, renderArgs, rendered, validateArgs,
                 options, request, response, params, paramsError,
                 optionsData, showGraphiQL, documentAST, validationErrors,
                 result, executeArgs, optionsCalls, calls>>

\* Mutant of RethrowParamsError: pretty and formatErrorFn are variables of the
\* middleware instance, which every request in flight reads.
RethrowParamsError_SharedLocals(r) ==
  /\ pc[r] = "awaitOptionsNoParams"
  /\ LET got == resolveOptions(options.yield[r])
     IN IF got.threw # NoErr
        THEN /\ Throw(r, got.threw)
             /\ UNCHANGED <<pretty, formatErrorFn>>
        ELSE /\ pretty' = [q \in Reqs |-> PrettyOf(got.value)]
             /\ formatErrorFn' =
                  [q \in Reqs |-> FormatErrorFnOf(got.value, formatErrorFn[r])]
             /\ Throw(r, paramsError[r])
  /\ UNCHANGED <<middleware, renderArgs, rendered, validateArgs,
                 options, request, response, params, paramsError,
                 optionsData, showGraphiQL, documentAST, validationErrors,
                 result, executeArgs, optionsCalls, calls>>

\* index.ts:183-189  The promise of resolveOptions() has settled: its error
\* leaves the inner catch clause, or pretty and the error formatter are taken
\* from its value and the parse error is thrown again.
RethrowParamsError(r) ==
  /\ pc[r] = "awaitOptionsNoParams"
  /\ LET got == resolveOptions(options.yield[r])
     IN IF got.threw # NoErr
        THEN /\ Throw(r, got.threw)
             /\ UNCHANGED <<pretty, formatErrorFn>>
        ELSE /\ pretty' = [pretty EXCEPT ![r] = PrettyOf(got.value)]
             /\ formatErrorFn' =
                  [formatErrorFn EXCEPT ![r] = FormatErrorFnOf(got.value, @)]
             /\ Throw(r, paramsError[r])
  /\ UNCHANGED <<middleware, renderArgs, rendered, validateArgs,
                 options, request, response, params, paramsError,
                 optionsData, showGraphiQL, documentAST, validationErrors,
                 result, executeArgs, optionsCalls, calls>>

\* Mutant of RequestParams: the options are resolved without the parameters.
RequestParams_Undefined(r) == NoParams

\* index.ts:193  the argument of resolveOptions(params)
RequestParams(r) == params[r]

\* index.ts:192-193  resolveOptions is called with the parsed parameters, and
\* the run waits for its promise.
ResolveOptions(r) ==
  /\ pc[r] = "resolveOptions"
  /\ OptionsCalled(r, RequestParams(r))
  /\ pc' = [pc EXCEPT ![r] = "awaitOptions"]
  /\ UNCHANGED <<middleware, renderArgs, rendered, validateArgs,
                 options, request, response, params, paramsError,
                 optionsData, showGraphiQL, formatErrorFn, pretty, documentAST,
                 validationErrors, result, rawError, executeArgs>>

\* Mutant of AssignOptionsData: the Promise an options function returns is
\* not awaited, and is taken for the OptionsData: an object without any
\* option.
AssignOptionsData_PromiseNotAwaited(r) ==
  /\ pc[r] = "awaitOptions"
  /\ LET got == resolveOptions(options.yield[r])
     IN IF got.threw # NoErr /\ options.form # "asyncFunction"
        THEN /\ Throw(r, got.threw)
             /\ UNCHANGED optionsData
        ELSE /\ optionsData' =
                  [optionsData EXCEPT ![r] =
                     IF options.form = "asyncFunction"
                     THEN OptionsData(Nil, Nil, Nil, Nil, Nil, Nil, Nil, Nil, Nil, Nil)
                     ELSE got.value]
             /\ pc' = [pc EXCEPT ![r] = "checkRequest"]
             /\ UNCHANGED rawError
  /\ UNCHANGED <<middleware, renderArgs, rendered, validateArgs,
                 options, request, response, params, paramsError,
                 showGraphiQL, formatErrorFn, pretty, documentAST,
                 validationErrors, result, executeArgs, optionsCalls, calls>>

\* Mutant of AssignOptionsData: the resolved options are kept in a variable
\* of the middleware instance, which every request in flight reads.
AssignOptionsData_Shared(r) ==
  /\ pc[r] = "awaitOptions"
  /\ LET got == resolveOptions(options.yield[r])
     IN IF got.threw # NoErr
        THEN /\ Throw(r, got.threw)
             /\ UNCHANGED optionsData
        ELSE /\ optionsData' = [q \in Reqs |-> got.value]
             /\ pc' = [pc EXCEPT ![r] = "checkRequest"]
             /\ UNCHANGED rawError
  /\ UNCHANGED <<middleware, renderArgs, rendered, validateArgs,
                 options, request, response, params, paramsError,
                 showGraphiQL, formatErrorFn, pretty, documentAST,
                 validationErrors, result, executeArgs, optionsCalls, calls>>

\* index.ts:193  The promise of resolveOptions(params) has settled: its value
\* is the optionsData, or its error is thrown.
AssignOptionsData(r) ==
  /\ pc[r] = "awaitOptions"
  /\ LET got == resolveOptions(options.yield[r])
     IN IF got.threw # NoErr
        THEN /\ Throw(r, got.threw)
             /\ UNCHANGED optionsData
        ELSE /\ optionsData' = [optionsData EXCEPT ![r] = got.value]
             /\ pc' = [pc EXCEPT ![r] = "checkRequest"]
             /\ UNCHANGED rawError
  /\ UNCHANGED <<middleware, renderArgs, rendered, validateArgs,
                 options, request, response, params, paramsError,
                 showGraphiQL, formatErrorFn, pretty, documentAST,
                 validationErrors, result, executeArgs, optionsCalls, calls>>


\* Mutant of GraphiqlOf: the IDE is on unless the options turn it off.
GraphiqlOf_DefaultTrue(od) == Coalesce(od.graphiql, "true")

\* index.ts:201  optionsData.graphiql ?? false
GraphiqlOf(od) == Coalesce(od.graphiql, "false")

\* index.ts:202  optionsData.extensions
ExtensionsFnOf(od) == od.extensions

\* An error thrown outside the try block: it leaves the middleware, which
\* returns to its caller without having written a body.
Reject(r, error) ==
  /\ rawError' = [rawError EXCEPT ![r] = error]
  /\ pc' = [pc EXCEPT ![r] = "rejected"]

\* respondWithGraphiQL(response, graphiqlOptions, params?, result?): the page
\* renderGraphiQL gives is the whole response and the run returns; when
\* renderGraphiQL throws, no body is written and the error leaves the
\* middleware.  resp is the response as it stands.
RespondWithGraphiQL(r, resp, page) ==
  LET out == renderGraphiQL(GraphiqlOptionsOf(optionsData[r]))
  IN IF out.threw # NoErr
     THEN /\ Reject(r, out.threw)
          /\ response' = [response EXCEPT ![r] = resp]
     ELSE /\ response' = [response EXCEPT ![r] = SetBody(resp, "text/html", page)]
          /\ pc' = [pc EXCEPT ![r] = "done"]
          /\ UNCHANGED rawError

\* The options are collected, pretty and the error formatter are taken from
\* them, the schema must be there, the method must be GET or POST, and a
\* request without a query gets the IDE page or a 400.  All of it is inside
\* the try block: an error renderGraphiQL throws here is caught like any
\* other, and the page is attempted again once the error result is made.
CheckRequest(r) ==
  /\ pc[r] = "checkRequest"
  /\ LET od == optionsData[r]
         graphiql == GraphiqlOf(od)
         show == canDisplayGraphiQL(request[r], params[r]) /\ graphiql # "false"
     IN /\ pretty' = [pretty EXCEPT ![r] = PrettyOf(od)]
        /\ formatErrorFn' = [formatErrorFn EXCEPT ![r] = FormatErrorFnOf(od, @)]
        /\ IF IsNullish(od.schema)
           THEN /\ Throw(r, PlainError(MsgMustContainSchema))
                /\ UNCHANGED <<showGraphiQL, response>>
           ELSE IF request[r].method \notin {"GET", "POST"}
           THEN /\ Throw(r, httpError(405, MsgOnlyGetPost, << >>, "GET, POST"))
                /\ UNCHANGED <<showGraphiQL, response>>
           ELSE /\ showGraphiQL' = [showGraphiQL EXCEPT ![r] = show]
                /\ IF IsNullish(params[r].query)
                   THEN IF show
                        THEN IF renderGraphiQL(GraphiqlOptionsOf(od)).threw # NoErr
                             THEN /\ Throw(r, renderGraphiQL(GraphiqlOptionsOf(od)).threw)
                                  /\ UNCHANGED response
                             ELSE RespondWithGraphiQL(r, response[r], GraphiQLPage)
                        ELSE /\ Throw(r, httpError(400, MsgMustProvideQuery, << >>, Nil))
                             /\ UNCHANGED response
                   ELSE /\ pc' = [pc EXCEPT ![r] = "parse"]
                        /\ UNCHANGED <<rawError, response>>
  /\ UNCHANGED <<middleware, renderArgs, rendered, validateArgs,
                 options, request, params, paramsError, optionsData,
                 documentAST, validationErrors, result, executeArgs,
                 optionsCalls, calls>>

\* index.ts:204  optionsData.customParseFn ?? parse
ParseFnOf(od) == Coalesce(od.customParseFn, "parse")

\* index.ts:206  optionsData.customValidateFn ?? validate
ValidateFnOf(od) == Coalesce(od.customValidateFn, "validate")

\* index.ts:205  optionsData.customExecuteFn ?? execute
ExecuteFnOf(od) == Coalesce(od.customExecuteFn, "execute")

\* Mutant of ContextOf: only a context that is undefined is replaced by ctx.
ContextOf_UndefinedOnly(od, ctx) == IF od.context = Nil THEN ctx ELSE od.context

\* index.ts:203  optionsData.context ?? ctx
ContextOf(od, ctx) == Coalesce(od.context, ctx)

\* The schema is validated (an invalid one is a 500) and the query is parsed
\* (a syntax error is a 400).
ParseQuery(r) ==
  /\ pc[r] = "parse"
  /\ LET schemaValidationErrors == validateSchema(optionsData[r].schema)
         parseFn == ParseFnOf(optionsData[r])
     IN IF schemaValidationErrors # << >>
        THEN /\ calls' = [calls EXCEPT ![r] = Append(@, "validateSchema")]
             /\ Throw(r, httpError(500, MsgSchemaValidation,
                                   schemaValidationErrors, Nil))
             /\ UNCHANGED documentAST
        ELSE /\ calls' = [calls EXCEPT ![r] = @ \o <<"validateSchema", parseFn>>]
             /\ \/ /\ Throw(r, httpError(400, MsgSyntaxError,
                                         <<GraphQLError("Syntax Error")>>, Nil))
                   /\ UNCHANGED documentAST
                \/ \E doc \in Documents :
                     /\ documentAST' = [documentAST EXCEPT ![r] = doc]
                     /\ pc' = [pc EXCEPT ![r] = "validate"]
                     /\ UNCHANGED rawError
  /\ UNCHANGED <<middleware, renderArgs, rendered, validateArgs,
                 options, request, response, params, paramsError, optionsData,
                 showGraphiQL, formatErrorFn, pretty, validationErrors, result,
                 executeArgs, optionsCalls>>

\* Mutant of ValidationRulesOf: the rules of the options are left out.
ValidationRulesOf_None(od) == << >>

\* index.ts:198  optionsData.validationRules ?? []
ValidationRulesOf(od) ==
  IF od.validationRules.given THEN od.validationRules.rules ELSE << >>

\* The rules validateFn is given: [...specifiedRules, ...validationRules]
RulesGiven(validationRules) == specifiedRules \o validationRules

\* What validateFn(schema, documentAST, rules) may return.  The default
\* validate reports what the specified rules find in the document, when it
\* is given them, followed by what the added rules report; a customValidateFn
\* is free in what it does with the rules.
ValidateResults(validateFn, rules) ==
  IF validateFn # "validate" THEN ValidationErrorLists
  ELSE {found \o AddedRuleErrors(rules) :
          found \in IF \A i \in 1..Len(specifiedRules) :
                         \E j \in 1..Len(rules) : rules[j] = specifiedRules[i]
                      THEN ValidationErrorLists ELSE {<< >>}}

\* The document is validated: any validation error is a 400.  A
\* customValidateFn may also throw.
Validate(r) ==
  /\ pc[r] = "validate"
  /\ Called(r, ValidateFnOf(optionsData[r]))
  /\ validateArgs' =
       [validateArgs EXCEPT ![r] = RulesGiven(ValidationRulesOf(optionsData[r]))]
  /\ \/ \E errors \in ValidateResults(ValidateFnOf(optionsData[r]),
                                       RulesGiven(ValidationRulesOf(optionsData[r]))) :
          /\ validationErrors' = [validationErrors EXCEPT ![r] = errors]
          /\ IF errors # << >>
             THEN Throw(r, httpError(400, MsgValidationError, errors, Nil))
             ELSE /\ pc' = [pc EXCEPT ![r] = "operationGuard"]
                  /\ UNCHANGED rawError
     \/ /\ ValidateFnOf(optionsData[r]) # "validate"
        /\ Throw(r, PlainError(MsgValidateThrew))
        /\ UNCHANGED validationErrors
  /\ UNCHANGED <<middleware, renderArgs, rendered,
                 options, request, response, params, paramsError, optionsData,
                 showGraphiQL, formatErrorFn, pretty, documentAST, result,
                 executeArgs, optionsCalls>>

\* Mutant of IsNonQueryViaGet: the method is not looked at.
IsNonQueryViaGet_AnyMethod(method, operationAST) ==
  /\ operationAST # NoOperation
  /\ operationAST.operation # "query"

\* The request is a GET request that would perform something other than a
\* query.
IsNonQueryViaGet(method, operationAST) ==
  /\ method = "GET"
  /\ operationAST # NoOperation
  /\ operationAST.operation # "query"

\* Only query operations are allowed on GET requests: another operation is
\* a 405 (spec.md, section 6: 405 (mutation via GET)).
OperationGuard(r) ==
  /\ pc[r] = "operationGuard"
  /\ LET operationAST == getOperationAST(documentAST[r], params[r].operationName)
     IN IF IsNonQueryViaGet(request[r].method, operationAST)
        THEN /\ Throw(r, httpError(405, MsgCanOnlyPerform(operationAST.operation),
                                   << >>, "POST"))
             /\ UNCHANGED response
        ELSE /\ pc' = [pc EXCEPT ![r] = "execute"]
             /\ UNCHANGED <<rawError, response>>
  /\ UNCHANGED <<middleware, renderArgs, rendered, validateArgs,
                 options, request, params, paramsError, optionsData,
                 showGraphiQL, formatErrorFn, pretty, documentAST,
                 validationErrors, result, executeArgs, optionsCalls, calls>>


\* What a call of executeFn may return for the document at hand.
ExecuteResults(executeFn, documentAST_, operationName) ==
  IF executeFn = "execute"
  THEN DefaultExecuteResults(documentAST_, operationName)
  ELSE CustomExecuteResults

\* The execution is performed; the status becomes 200.  An error thrown while
\* the execution context is built is a 400.
Execute(r) ==
  /\ pc[r] = "execute"
  /\ LET od == optionsData[r]
         executeFn == ExecuteFnOf(od)
     IN /\ Called(r, executeFn)
        /\ executeArgs' =
             [executeArgs EXCEPT ![r] =
                ExecuteArgs(ContextOf(od, "ctx"), params[r].operationName)]
        /\ \/ \E res \in ExecuteResults(executeFn, documentAST[r],
                                        params[r].operationName) :
                /\ result' = [result EXCEPT ![r] = res]
                /\ response' = [response EXCEPT ![r] = SetStatus(@, 200)]
                /\ pc' = [pc EXCEPT ![r] = "extensions"]
                /\ UNCHANGED rawError
           \/ /\ Throw(r, httpError(400, MsgExecutionContext,
                                    <<GraphQLError("context error")>>, Nil))
              /\ UNCHANGED <<result, response>>
  /\ UNCHANGED <<middleware, renderArgs, rendered, validateArgs,
                 options, request, params, paramsError, optionsData,
                 showGraphiQL, formatErrorFn, pretty, documentAST,
                 validationErrors, optionsCalls>>

\* Any metadata extensions are collected and added to the result, when an
\* extensions function was provided.
Extensions(r) ==
  /\ pc[r] = "extensions"
  /\ IF IsNullish(ExtensionsFnOf(optionsData[r]))
     THEN /\ pc' = [pc EXCEPT ![r] = "respond"]
          /\ UNCHANGED <<result, rawError, calls>>
     ELSE /\ Called(r, "extensions")
          /\ \/ \E extensions \in {Nil, "extensions"} :
                  /\ result' = [result EXCEPT ![r].extensions =
                                  IF IsNullish(extensions) THEN @ ELSE extensions]
                  /\ pc' = [pc EXCEPT ![r] = "respond"]
                  /\ UNCHANGED rawError
             \/ \E e \in ExtensionsErrors :
                  /\ Throw(r, e)
                  /\ UNCHANGED result
  /\ UNCHANGED <<middleware, renderArgs, rendered, validateArgs,
                 options, request, response, params, paramsError, optionsData,
                 showGraphiQL, formatErrorFn, pretty, documentAST,
                 validationErrors, executeArgs, optionsCalls>>

\* The result the catch clause builds from the caught error: the error's
\* graphqlErrors when it has some, and otherwise one GraphQLError with the
\* error's message; never data.
ErrorResult(error) ==
  IF error.graphqlErrors = << >>
  THEN Result(Nil, <<GraphQLError(error.message)>>)
  ELSE Result(Nil, error.graphqlErrors)

\* The catch clause of the outer try block: the error's status, or 500, is
\* the response status, its headers are set, and its errors are the result.
Catch(r) ==
  /\ pc[r] = "catch"
  /\ response' =
       [response EXCEPT ![r] =
          [SetStatus(@, ReportedStatus(rawError[r])) EXCEPT
             !.allow = IF rawError[r].headerAllow # Nil
                       THEN rawError[r].headerAllow ELSE @]]
  /\ result' = [result EXCEPT ![r] = ErrorResult(rawError[r])]
  /\ pc' = [pc EXCEPT ![r] = "respond"]
  /\ UNCHANGED <<middleware, renderArgs, rendered, validateArgs,
                 options, request, params, paramsError, optionsData,
                 showGraphiQL, formatErrorFn, pretty, documentAST,
                 validationErrors, rawError, executeArgs, optionsCalls, calls>>

\* Mutant of FinalStatus: the status of the execution is kept whatever the
\* result holds.
FinalStatus_Keeps200(status, res) == status

\* Mutant of FinalStatus: only a result whose data is absent is taken for a
\* runtime query error, not one whose data is null.
FinalStatus_AbsentOnly(status, res) ==
  IF status = 200 /\ res.data = Nil THEN 500 ELSE status

\* A result without data is a runtime query error: its status is 500, not 200.
FinalStatus(status, res) ==
  IF status = 200 /\ IsNullish(res.data) THEN 500 ELSE status

\* { ...result, errors: result.errors?.map(formatErrorFn) }
FormattedResult(formatErrorFn_, res) ==
  [res EXCEPT !.errors = FormatErrors(formatErrorFn_, res.errors)]

\* The errors are formatted and the response is written: the IDE page when it
\* is to be shown, the JSON text otherwise.  This is after the catch clause.
Respond(r) ==
  /\ pc[r] = "respond"
  /\ LET formatted == FormattedResult(formatErrorFn[r], result[r])
         withStatus ==
           IF FinalStatus(response[r].status, result[r]) # response[r].status
           THEN SetStatus(response[r], FinalStatus(response[r].status, result[r]))
           ELSE response[r]
     IN IF showGraphiQL[r]
        THEN RespondWithGraphiQL(r, withStatus, GraphiQLPageWith(formatted))
        ELSE /\ response' =
                  [response EXCEPT ![r] =
                     SetBody(withStatus, "application/json",
                             JsonBody(formatted, pretty[r]))]
             /\ pc' = [pc EXCEPT ![r] = "done"]
             /\ UNCHANGED rawError
  /\ UNCHANGED <<middleware, renderArgs, rendered, validateArgs,
                 options, request, params, paramsError, optionsData,
                 showGraphiQL, formatErrorFn, pretty, documentAST,
                 validationErrors, result, executeArgs, optionsCalls,
                 calls>>

\* graphqlHTTP called with undefined, or with null, for its options.
NullishOptions ==
  {Options(f, [r \in Reqs |-> OptionsYield(NoErr, NotAnObject)]) :
     f \in {"undefined", "null"}}

\* Mutant of IsNonNullable: only undefined is refused.
IsNonNullable_UndefinedOnly(value) == value.form # "undefined"

\* index.ts:156  devAssertIsNonNullable(options, ...): options != null
IsNonNullable(value) == value.form \notin {"undefined", "null"}

\* index.ts:155-158  graphqlHTTP(options): without options it throws, and
\* otherwise it returns the middleware.
graphqlHTTP ==
  /\ middleware = NotConstructed
  /\ middleware' =
       IF IsNonNullable(options) THEN Middleware(TRUE, NoErr)
       ELSE Middleware(FALSE, PlainError(MsgRequiresOptions))
  /\ UNCHANGED <<options, request, response, pc, params, paramsError,
                 optionsData, showGraphiQL, formatErrorFn, pretty, documentAST,
                 validationErrors, result, rawError, executeArgs, optionsCalls,
                 calls, validateArgs, renderArgs, rendered>>

\* index.ts:158  Koa calls the middleware that graphqlHTTP returned for a
\* request that has arrived.
Handle(r) ==
  /\ middleware.returned
  /\ pc[r] = "arrived"
  /\ pc' = [pc EXCEPT ![r] = "getParams"]
  /\ UNCHANGED <<options, request, response, params, paramsError,
                 optionsData, showGraphiQL, formatErrorFn, pretty, documentAST,
                 validationErrors, result, rawError, executeArgs, optionsCalls,
                 calls, validateArgs, middleware, renderArgs, rendered>>

\* One step of the run of the middleware for request r.
Step(r) ==
  \/ GetParams(r)
  \/ AssignParams(r)
  \/ ResolveOptionsNoParams(r)
  \/ RethrowParamsError(r)
  \/ ResolveOptions(r)
  \/ AssignOptionsData(r)
  \/ CheckRequest(r)
  \/ ParseQuery(r)
  \/ Validate(r)
  \/ OperationGuard(r)
  \/ Execute(r)
  \/ Extensions(r)
  \/ Catch(r)
  \/ Respond(r)

\* A call of renderGraphiQL.
RenderGraphiQL ==
  /\ renderArgs # NoRenderArgs
  /\ rendered = NotRendered
  /\ rendered' = renderGraphiQL(renderArgs)
  /\ UNCHANGED <<options, request, response, pc, params, paramsError,
                 optionsData, showGraphiQL, formatErrorFn, pretty, documentAST,
                 validationErrors, result, rawError, executeArgs, optionsCalls,
                 calls, validateArgs, middleware, renderArgs>>

\* ---------------------------------------------------------- specification
\* The URL parameters of the requests of Spec.
SpecUrls ==
  {UrlData(q, Null, n, Null) : q \in {Null, "{ query }"}, n \in {Null} \cup OpNames}

\* The bodies of the requests of Spec, as <<ctx.request.body, raw body>>: no
\* body; a body that is not valid JSON; a string left by an earlier
\* middleware; a Buffer left by an earlier middleware.
SpecBodies ==
  {<<NoBody, NoBody>>, <<NoBody, InvalidJSONBody>>, <<StringBody, NoBody>>,
   <<BufferBody, NoBody>>}

\* The requests of Spec.
SpecRequests ==
  {Request(m, h, u, NoBody, b[1], b[2]) :
     m \in Methods, h \in BOOLEAN, u \in SpecUrls, b \in SpecBodies}

\* The editorTheme values of the GraphiQLOptions of Spec: the name of a
\* theme, and a number, which is no theme.
SpecEditorThemes == {JsString(<<"s">>), JsNumber(1, FALSE)}

\* The OptionsData values of Spec.
SpecOptionsData ==
  {OptionsData(schema, Nil, Nil, graphiql, Nil, Nil, Nil, validateFn, executeFn,
               extensions) :
     schema \in {Nil, "validSchema", "invalidSchema"},
     graphiql \in {Nil, "true"},
     validateFn \in {Nil, "customValidateFn"},
     executeFn \in {Nil, "customExecuteFn"},
     extensions \in {Nil, "extensionsFn"}}
  \cup {WithGraphiQLOptions(
           OptionsData("validSchema", Nil, Nil, Nil, Nil, Nil, Nil, Nil, Nil, Nil),
           GraphiQLOptions(JsUndefined, editorTheme)) :
         editorTheme \in SpecEditorThemes}

\* The values given to graphqlHTTP in Spec.
SpecOptions ==
  {ObjectOptions(d) : d \in SpecOptionsData}
  \cup {Options(f, [r \in Reqs |-> IF r = "r1" THEN y ELSE OptionsYield(NoErr, NotAnObject)]) :
          f \in {"function", "asyncFunction"}, y \in FunctionYields(SpecOptionsData)}
  \cup {PromiseOptions(y) : y \in FunctionYields(SpecOptionsData)}

\* One request r1 handled by a middleware built from any of SpecOptions.
Init ==
  /\ options \in SpecOptions
  /\ request \in [Reqs -> SpecRequests \cup {IdleRequest}]
  /\ request["r2"] = IdleRequest
  /\ request["r1"] \in SpecRequests
  /\ response = [r \in Reqs |-> NewResponse]
  /\ pc = [r \in Reqs |-> IF r = "r1" THEN "getParams" ELSE "idle"]
  /\ InitLocals
  /\ Mounted

Next == Step("r1")

Spec == Init /\ [][Next]_vars

\* The requests of SpecLive: with or without a query, with or without a body
\* that fails to parse.
LiveRequests ==
  {Request(m, h, UrlData(q, Null, Null, Null), NoBody, NoBody, b) :
     m \in Methods, h \in BOOLEAN, q \in {Null, "{ query }"},
     b \in {NoBody, InvalidJSONBody}}

\* One request r1, any of requests, handled by a middleware built from any of
\* optionsValues.
InitOne(optionsValues, requests) ==
  /\ options \in optionsValues
  /\ \E req \in requests :
       request = [r \in Reqs |-> IF r = "r1" THEN req ELSE IdleRequest]
  /\ response = [r \in Reqs |-> NewResponse]
  /\ pc = [r \in Reqs |-> IF r = "r1" THEN "getParams" ELSE "idle"]
  /\ InitLocals
  /\ Mounted

\* The values given to graphqlHTTP that resolve to one of datas, or fail to:
\* the object itself, or a function (returning a value or a Promise) that
\* yields it, yields null, or throws.
OptionsOver(datas) ==
  {ObjectOptions(d) : d \in datas}
  \cup {Options(f, [r \in Reqs |-> IF r = "r1" THEN y ELSE OptionsYield(NoErr, NotAnObject)]) :
          f \in {"function", "asyncFunction"}, y \in FunctionYields(datas)}
  \cup {PromiseOptions(y) : y \in FunctionYields(datas)}

InitLive == InitOne(SpecOptions, LiveRequests)

\* The run of an async function goes on whenever the call it awaits has
\* returned or thrown: a step that is possible is taken.
SpecLive == InitLive /\ [][Next]_vars /\ WF_vars(Next)

\* The OptionsData values of SpecFormat: the two options that name an error
\* formatter vary, with and without a schema and the IDE.
FormatOptionsData ==
  {OptionsData(schema, Nil, Nil, graphiql, custom, deprecated, Nil, Nil, Nil, Nil) :
     schema \in {Nil, "validSchema"},
     graphiql \in {Nil, "true"},
     custom \in {Nil, Null, "customFormatErrorFn"},
     deprecated \in {Nil, "deprecatedFormatError"}}

InitFormat == InitOne(OptionsOver(FormatOptionsData), LiveRequests)

SpecFormat == InitFormat /\ [][Next]_vars

\* The OptionsData values of SpecContext: the context option is left out,
\* null, or a value.
ContextOptionsData ==
  {OptionsData(schema, context, Nil, Nil, Nil, Nil, Nil, Nil, executeFn, extensions) :
     schema \in {Nil, "validSchema"},
     context \in {Nil, Null, "testValue"},
     executeFn \in {Nil, "customExecuteFn"},
     extensions \in {Nil, "extensionsFn"}}

InitContext == InitOne(OptionsOver(ContextOptionsData), LiveRequests)

SpecContext == InitContext /\ [][Next]_vars

\* The URL parameters of the requests of SpecTransport: each of query,
\* variables and operationName is given or not.
TransportUrls ==
  {UrlData(q, v, n, Null) :
     q \in {Null, "{ urlQuery }"}, v \in {Null, "urlVariables"},
     n \in {Null, "TestQuery"}}

\* The keyed objects a body may be: each of query, variables and
\* operationName is given or not.
BodyObjects ==
  {Body("object", q, v, n, FALSE) :
     q \in {Nil, "{ bodyQuery }"}, v \in {Nil, "bodyVariables"},
     n \in {Nil, "TestMutation"}}

\* A body with every parameter, and a body with the query alone.
FullBody == Body("object", "{ bodyQuery }", "bodyVariables", "TestMutation", FALSE)
QueryBody == Body("object", "{ bodyQuery }", Nil, Nil, FALSE)

\* The bodies of the requests of SpecTransport, as <<ctx.req.body,
\* ctx.request.body, raw body>>: a raw body to read; a body an earlier
\* middleware parsed and left on the Koa request; a null on the Node request;
\* and a body on the Node request next to another on the Koa request.
TransportBodies ==
  {<<NoBody, NoBody, s>> :
     s \in BodyObjects \cup {NoBody, InvalidJSONBody, GraphQLStringBody("{ bodyQuery }")}}
  \cup {<<NoBody, k, NoBody>> :
          k \in {FullBody, QueryBody, StringBody, BufferBody,
                 GraphQLStringBody("{ bodyQuery }")}}
  \cup {<<NullBody, k, NoBody>> : k \in {FullBody, QueryBody}}
  \cup {<<n, FullBody, NoBody>> : n \in {QueryBody, StringBody}}

\* The requests of SpecTransport.
TransportRequests ==
  {Request("POST", FALSE, u, b[1], b[2], b[3]) :
     u \in TransportUrls, b \in TransportBodies}

\* The OptionsData value of SpecTransport.
TransportOptionsData ==
  {OptionsData("validSchema", Nil, Nil, Nil, Nil, Nil, Nil, Nil, Nil, Nil)}

InitTransport == InitOne(OptionsOver(TransportOptionsData), TransportRequests)

SpecTransport == InitTransport /\ [][Next]_vars

\* A body that gives the raw parameter and nothing else.
RawBody == Body("object", Nil, Nil, Nil, TRUE)

\* The requests of SpecOutput: with or without a query, with or without the
\* raw parameter (in the URL or in the body), from a client that prefers HTML
\* or one that does not, with or without a body that fails to parse.
OutputRequests ==
  {Request(m, h, UrlData(q, Null, Null, raw), NoBody, NoBody, b) :
     m \in Methods, h \in BOOLEAN, q \in {Null, "{ query }"}, raw \in {Null, ""},
     b \in {NoBody, InvalidJSONBody, RawBody}}

\* The OptionsData values of SpecOutput: pretty is left out, true or false,
\* the IDE is on or off, an error formatter is named or not.
OutputOptionsData ==
  {OptionsData("validSchema", Nil, pretty_, graphiql, custom, Nil, Nil, Nil, Nil, Nil) :
     pretty_ \in {Nil, "true", "false"},
     graphiql \in {Nil, "true"},
     custom \in {Nil, "customFormatErrorFn"}}

InitOutput == InitOne(OptionsOver(OutputOptionsData), OutputRequests)

SpecOutput == InitOutput /\ [][Next]_vars

\* The OptionsData values of SpecRules: validationRules is left out, empty,
\* or holds a rule that every document violates; validation is done by the
\* default validate or by a customValidateFn.
RulesOptionsData ==
  LET base ==
        {OptionsData("validSchema", Nil, Nil, Nil, Nil, Nil, Nil, validateFn, Nil, Nil) :
           validateFn \in {Nil, "customValidateFn"}}
  IN base \cup {WithValidationRules(od, rules) :
                  od \in base, rules \in {<< >>, <<AlwaysInvalidRule>>}}

InitRules == InitOne(OptionsOver(RulesOptionsData), LiveRequests)

SpecRules == InitRules /\ [][Next]_vars

\* The values safeSerialize may be given: undefined, null, a boolean, or a
\* string of up to MaxLen characters.
SerializeInputs ==
  {JsUndefined, JsNull, JsBoolean(TRUE), JsBoolean(FALSE)}
  \cup {JsString(chars) : chars \in SeqsUpTo(Chars, MaxLen)}

\* The values a key of an editorTheme object may have.
ThemeKeyValues ==
  {JsUndefined, JsNull, JsString(<< >>), JsString(<<"s">>), JsBoolean(TRUE),
   JsNumber(0, FALSE), JsNumber(1, FALSE), JsNumber(0, TRUE)}

\* The values editorTheme may have: undefined, null, a string (the empty one
\* too), an object with any of ThemeKeyValues for name and url, and values
\* of other types.
EditorThemeValues ==
  {JsUndefined, JsNull, JsBoolean(TRUE), JsBoolean(FALSE),
   JsNumber(0, FALSE), JsNumber(1, FALSE), JsNumber(0, TRUE)}
  \cup {JsString(chars) : chars \in {<< >>, <<"s">>, <<"/">>}}
  \cup {JsObject(name, url) : name \in ThemeKeyValues, url \in ThemeKeyValues}

\* renderGraphiQL is about to be called with any of the options followed.
InitRender ==
  /\ options = ObjectOptions(OptionsData("validSchema", Nil, Nil, "true", Nil, Nil, Nil, Nil, Nil, Nil))
  /\ request = [r \in Reqs |-> IdleRequest]
  /\ response = [r \in Reqs |-> NewResponse]
  /\ pc = [r \in Reqs |-> "idle"]
  /\ InitLocals
  /\ middleware = Middleware(TRUE, NoErr)
  /\ renderArgs \in {GraphiQLOptions(e, t) : e \in SerializeInputs, t \in EditorThemeValues}
  /\ rendered = NotRendered

NextRender == RenderGraphiQL

SpecRender == InitRender /\ [][NextRender]_vars

\* An application is about to call graphqlHTTP with any of SpecOptions or
\* with no options, and a request has arrived for it.
InitUsage ==
  /\ options \in SpecOptions \cup NullishOptions
  /\ \E req \in LiveRequests :
       request = [r \in Reqs |-> IF r = "r1" THEN req ELSE IdleRequest]
  /\ response = [r \in Reqs |-> NewResponse]
  /\ pc = [r \in Reqs |-> IF r = "r1" THEN "arrived" ELSE "idle"]
  /\ InitLocals
  /\ middleware = NotConstructed
  /\ renderArgs = NoRenderArgs
  /\ rendered = NotRendered

NextUsage == graphqlHTTP \/ Handle("r1") \/ Step("r1")

SpecUsage == InitUsage /\ [][NextUsage]_vars

\* ------------------------------------------- two requests in flight
\* The requests of SpecConc: a query, a mutation selected over GET by a
\* browser, and a POST whose body is not valid JSON.
ConcRequests ==
  {Request("GET", FALSE, UrlData("{ query }", Null, Null, Null),
           NoBody, NoBody, NoBody),
   Request("GET", TRUE, UrlData("{ query }", Null, "TestMutation", Null),
           NoBody, NoBody, NoBody),
   Request("POST", FALSE, UrlData(Null, Null, Null, Null),
           NoBody, NoBody, InvalidJSONBody)}

\* The OptionsData values of SpecConc: one asks for pretty printing, the
\* other for the IDE.
ConcOptionsData ==
  {OptionsData("validSchema", Nil, "true", Nil, Nil, Nil, Nil, Nil, Nil, Nil),
   OptionsData("validSchema", Nil, Nil, "true", Nil, Nil, Nil, Nil, Nil, Nil)}

\* What the options function of SpecConc may yield for a request.
ConcYields ==
  {OptionsYield(NoErr, d) : d \in ConcOptionsData}
  \cup {OptionsYield(PlainError(MsgOptionsThrew), NotAnObject)}

\* The values given to graphqlHTTP in SpecConc: an object, or a function
\* whose result depends on the request.
ConcOptions ==
  {ObjectOptions(d) : d \in ConcOptionsData}
  \cup {PromiseOptions(y) : y \in ConcYields}
  \cup {Options("function", y) : y \in [Reqs -> ConcYields]}

\* Two requests arrive at one middleware instance.
InitConc ==
  /\ options \in ConcOptions
  /\ request \in [Reqs -> ConcRequests]
  /\ response = [r \in Reqs |-> NewResponse]
  /\ pc = [r \in Reqs |-> "getParams"]
  /\ InitLocals
  /\ Mounted

\* The runs are interleaved at their await points: each step is a step of
\* one of the two.
NextConc == \E r \in Reqs : Step(r)

SpecConc == InitConc /\ [][NextConc]_vars

\* The requests of SpecPair: a query sent by GET, and a POST whose body is
\* not valid JSON.
PairRequests ==
  {Request("GET", FALSE, UrlData("{ query }", Null, Null, Null),
           NoBody, NoBody, NoBody),
   Request("POST", FALSE, UrlData(Null, Null, Null, Null),
           NoBody, NoBody, InvalidJSONBody)}

\* What the options function of SpecPair may do for a request: throw an error
\* with or without a status property of its own, return null, or return
\* options with a valid schema, an invalid schema or no schema.
PairYields ==
  {OptionsYield(e, NotAnObject) : e \in OptionsErrors}
  \cup {OptionsYield(NoErr, NotAnObject)}
  \cup {OptionsYield(NoErr, OptionsData(schema, Nil, Nil, Nil, Nil, Nil, Nil, Nil, Nil, Nil)) :
          schema \in {Nil, "validSchema", "invalidSchema"}}

\* One middleware instance, its options a function of the request, handles
\* two requests.
InitPair ==
  /\ options \in {Options("function", y) : y \in [Reqs -> PairYields]}
  /\ request \in [Reqs -> PairRequests]
  /\ response = [r \in Reqs |-> NewResponse]
  /\ pc = [r \in Reqs |-> "getParams"]
  /\ InitLocals
  /\ Mounted

\* The second request is handled once the first has been answered.
NextPair == \E r \in Reqs : (r = "r2" => pc["r1"] = "done") /\ Step(r)

SpecPair == InitPair /\ [][NextPair]_vars


\* ------------------------------------------------------------- properties
\* The names under which the parse, validate and execute functions are called.
ParseFns == {"parse", "customParseFn"}
ValidateFns == {"validate", "customValidateFn"}
ExecuteFns == {"execute", "customExecuteFn"}

\* Some function of fns was called during the run of r.
Invoked(r, fns) == \E i \in 1..Len(calls[r]) : calls[r][i] \in fns

\* The run of r has returned.
Done(r) == pc[r] = "done"

\* The body is JSON text holding nothing but one error, with this message.
IsSingleError(body, message) ==
  /\ body.kind = "json"
  /\ body.keys = {"errors"}
  /\ Len(body.errors) = 1
  /\ body.errors[1].message = message

\* The run of r resolved its options to an object with a schema.
OptionsResolved(r) == optionsData[r].isObject /\ ~IsNullish(optionsData[r].schema)

\* The IDE page is to be shown for r, by the request and the options the run
\* resolved: graphiql is enabled, the request prefers HTML and gives no raw
\* parameter.
IDEWanted(r) ==
  /\ optionsData[r].isObject
  /\ optionsData[r].graphiql \notin {Nil, Null, "false"}
  /\ request[r].acceptsHtml
  /\ params[r] # NoParams
  /\ ~params[r].raw

\* The document of r was parsed and validated without errors, so the run came
\* to the check of the method against the operation.
PassedValidation(r) ==
  /\ Invoked(r, ValidateFns)
  /\ validationErrors[r] = << >>
  /\ rawError[r].message # MsgValidateThrew

\* The operation of r's document that operationName selects: without a name
\* the only operation of the document, with a name the operation of that
\* name; NoOperation when there is none such.
SelectedOperation(r) ==
  LET doc == documentAST[r]
      name == params[r].operationName
      named == {i \in 1..Len(doc) : doc[i].name = name}
  IN IF params[r] = NoParams THEN NoOperation
     ELSE IF IsNullish(name)
     THEN IF Len(doc) = 1 THEN doc[1] ELSE NoOperation
     ELSE IF named = {} THEN NoOperation
     ELSE doc[CHOOSE i \in named : TRUE]

\* The parse function returned a document for r.
Parsed(r) == Invoked(r, ParseFns) /\ documentAST[r] # NoDocument

\* r is a GET request whose document was parsed and selects a mutation.
SelectsMutationViaGet(r) ==
  /\ request[r].method = "GET"
  /\ Parsed(r)
  /\ SelectedOperation(r).operation = "mutation"

\* r is a GET request that came to the method check with a mutation selected.
MutationViaGet(r) == SelectsMutationViaGet(r) /\ PassedValidation(r)

\* The response of r carries a result (as JSON text, or embedded in the IDE
\* page) that has errors and no data.
ErrorsAndNoData(r) ==
  /\ response[r].body.hasResult
  /\ "errors" \in response[r].body.keys
  /\ "data" \notin response[r].body.keys

\* The result the body carries (as JSON text, or embedded in the IDE page)
\* is nothing but one error, with this message.
HoldsSingleError(body, message) ==
  /\ body.hasResult
  /\ body.keys = {"errors"}
  /\ Len(body.errors) = 1
  /\ body.errors[1].message = message

C1_WitnessPage ==
  \E r \in Reqs :
    /\ Done(r) /\ MutationViaGet(r) /\ IDEWanted(r)
    /\ response[r].status = 405
    /\ response[r].body.kind = "html"


\* The error formatter the options resolved for r configure, by the
\* precedence customFormatErrorFn, formatError, graphql-js formatError.
ConfiguredFormatter(r) ==
  IF ~optionsData[r].isObject THEN "formatError"
  ELSE IF ~IsNullish(optionsData[r].customFormatErrorFn)
       THEN optionsData[r].customFormatErrorFn
       ELSE IF ~IsNullish(optionsData[r].formatError)
            THEN optionsData[r].formatError
            ELSE "formatError"

\* C2: when validation of the parsed document returns errors, the response
\* has status 400, its body holds exactly those errors, in the order
\* validation returned them and formatted by the configured formatter, and no
\* data; execute is never invoked.
C2_ValidationErrors ==
  \A r \in Reqs :
    Done(r) /\ validationErrors[r] # << >> =>
      /\ response[r].status = 400
      /\ ErrorsAndNoData(r)
      /\ response[r].body.errors =
           FormatErrors(ConfiguredFormatter(r), validationErrors[r])
      /\ ~Invoked(r, ExecuteFns)

\* Validation returned two errors, the second before the first, and the
\* response was written.
C2_Witness ==
  \E r \in Reqs :
    /\ Done(r)
    /\ Len(validationErrors[r]) = 2
    /\ validationErrors[r][1] = NthError("validation error", 2)
    /\ response[r].body.kind = "json"

\* The parse function was called for r and threw.
ParseFailed(r) == Invoked(r, ParseFns) /\ documentAST[r] = NoDocument

\* C3: when the parse function fails on the query, the response has status
\* 400 and carries an errors list and no data; neither validation nor
\* execution is invoked.
C3_ParseFailure ==
  \A r \in Reqs :
    Done(r) /\ ParseFailed(r) =>
      /\ response[r].status = 400
      /\ ErrorsAndNoData(r)
      /\ Len(response[r].body.errors) = 1
      /\ ~Invoked(r, ValidateFns)
      /\ ~Invoked(r, ExecuteFns)

\* The parse function threw and the response was written as JSON.
C3_Witness ==
  \E r \in Reqs :
    /\ Done(r) /\ ParseFailed(r)
    /\ response[r].body.kind = "json"
    /\ response[r].body.errors[1].message = "Syntax Error"


\* The failure of options resolution that r's options lead to, by what the
\* options value yields for r: the thrown error, the error about a value that
\* is no object, the error about the missing schema; NoErr when there is none.
OptionsFailure(r) ==
  LET yield == options.yield[r]
  IN IF yield.threw # NoErr THEN yield.threw
     ELSE IF ~yield.value.isObject THEN PlainError(MsgOptionsMustReturnObject)
     ELSE IF IsNullish(yield.value.schema) THEN PlainError(MsgMustContainSchema)
     ELSE NoErr

\* The query of r was neither parsed, nor validated, nor executed.
NothingRun(r) ==
  /\ ~Invoked(r, ParseFns)
  /\ ~Invoked(r, ValidateFns)
  /\ ~Invoked(r, ExecuteFns)

\* The missing schema is the only failure of r's options, and it goes
\* unnoticed because parameter extraction failed: the options are then
\* resolved for pretty and the formatter alone, and the schema is not looked at.
SchemaNotLookedAt(r) ==
  /\ OptionsFailure(r) = PlainError(MsgMustContainSchema)
  /\ paramsError[r] # NoErr

\* C4 as stated: whenever options resolution fails (the function throws, the
\* value is no object, or the resolved options contain no schema), the
\* response has status 500 and exactly one error with the failure's message,
\* and nothing is run.
C4_Original ==
  \A r \in Reqs :
    Done(r) /\ OptionsFailure(r) # NoErr =>
      /\ response[r].status = 500
      /\ IsSingleError(response[r].body, OptionsFailure(r).message)
      /\ NothingRun(r)

\* C4 (amended): whenever options resolution fails, parse, validate and
\* execute are never invoked and the body is exactly one error and no data.
\* When the options function throws, the options value is no object, or -
\* parameter extraction having succeeded - the resolved options contain no
\* schema, the status is 500 and the error carries the failure's message;
\* when parameter extraction failed and the options resolved to an object
\* without a schema, the schema is never looked at and the error is the
\* extraction error.
C4_OptionsFailure ==
  \A r \in Reqs :
    Done(r) /\ OptionsFailure(r) # NoErr =>
      /\ NothingRun(r)
      /\ ~SchemaNotLookedAt(r) =>
           /\ response[r].status = 500
           /\ IsSingleError(response[r].body, OptionsFailure(r).message)
      /\ SchemaNotLookedAt(r) =>
           /\ IsSingleError(response[r].body, paramsError[r].message)
           /\ rawError[r] = paramsError[r]

\* An options function threw an error carrying a status property of its
\* own, after parameter extraction had failed, and the response reports the
\* options error with status 500.
C4_Witness ==
  \E r \in Reqs :
    /\ Done(r)
    /\ options.form = "asyncFunction"
    /\ options.yield[r].threw = Err(MsgOptionsThrew, 403, << >>, Nil)
    /\ paramsError[r] # NoErr
    /\ response[r].status = 500

\* Parameter extraction failed and the options resolved to an object without
\* a schema: the response reports the extraction error.
C4_WitnessNoSchema ==
  \E r \in Reqs :
    /\ Done(r) /\ SchemaNotLookedAt(r)
    /\ response[r].status = 400
    /\ IsSingleError(response[r].body, MsgInvalidJSONBody)

\* C5: when execution returns a result with non-null data and field errors,
\* and no later stage fails, the response status is 200 and the body holds the
\* data and the formatted errors.
C5_PartialErrors ==
  \A r \in Reqs :
    /\ Done(r) /\ Invoked(r, ExecuteFns) /\ rawError[r] = NoErr
    /\ ~IsNullish(result[r].data) /\ result[r].errors # << >>
    => /\ response[r].status = 200
       /\ response[r].body.hasResult
       /\ {"data", "errors"} \subseteq response[r].body.keys
       /\ response[r].body.data = result[r].data
       /\ response[r].body.errors =
            FormatErrors(ConfiguredFormatter(r), result[r].errors)

\* The default execute returned data and two field errors, and the response
\* was written as JSON.
C5_Witness ==
  \E r \in Reqs :
    /\ Done(r) /\ Invoked(r, {"execute"}) /\ rawError[r] = NoErr
    /\ result[r].data = "data" /\ Len(result[r].errors) = 2
    /\ response[r].body.kind = "json"

\* r gave no operationName, its document holds several operations, and the
\* default execute function was called for it and returned.
SeveralOperationsNoName(r) ==
  /\ Done(r)
  /\ Invoked(r, {"execute"})
  /\ rawError[r].message # MsgExecutionContext
  /\ IsNullish(params[r].operationName)
  /\ Len(documentAST[r]) > 1

\* C6: if operationName is not provided and the query contains multiple named
\* operations, a 400 error is returned.
C6_Original ==
  \A r \in Reqs :
    SeveralOperationsNoName(r) /\ rawError[r] = NoErr => response[r].status = 400

\* C7 as stated: a GET request with several operations and no operationName
\* that is executed, no stage failing, is answered 500 with exactly the error
\* 'Must provide operation name if query contains multiple operations.' and
\* no data.
C7_Original ==
  \A r \in Reqs :
    /\ Done(r) /\ request[r].method = "GET"
    /\ Invoked(r, ExecuteFns) /\ rawError[r] = NoErr
    /\ IsNullish(params[r].operationName) /\ Len(documentAST[r]) > 1
    => /\ response[r].status = 500
       /\ IsSingleError(response[r].body, MsgMustProvideOperationName)

\* C7 (amended): a GET request with several operations and no operationName,
\* executed by the default execute function and with no extensions function
\* configured, is answered 500 with a result that is exactly the error 'Must
\* provide operation name if query contains multiple operations.' and no data;
\* the body is that result as JSON unless the IDE page is to be shown.
C7_MissingOperationName ==
  \A r \in Reqs :
    /\ SeveralOperationsNoName(r) /\ request[r].method = "GET"
    /\ IsNullish(optionsData[r].extensions)
    => /\ response[r].status = 500
       /\ response[r].body.hasResult
       /\ response[r].body.keys = {"errors"}
       /\ Len(response[r].body.errors) = 1
       /\ response[r].body.errors[1].message = MsgMustProvideOperationName
       /\ ~IDEWanted(r) => IsSingleError(response[r].body, MsgMustProvideOperationName)

\* A GET request with a query and a mutation and no operationName was
\* answered 500 as JSON.
C7_Witness ==
  \E r \in Reqs :
    /\ SeveralOperationsNoName(r) /\ request[r].method = "GET"
    /\ documentAST[r] = <<Operation("TestQuery", "query"),
                         Operation("TestMutation", "mutation")>>
    /\ response[r].status = 500
    /\ response[r].body.kind = "json"


\* r came to the method check and is not a GET request for something other
\* than a query: a POST request, or a GET request whose selected operation is
\* a query or cannot be determined.
MethodAllowsOperation(r) ==
  /\ PassedValidation(r)
  /\ \/ request[r].method = "POST"
     \/ /\ request[r].method = "GET"
        /\ SelectedOperation(r).operation \in {"query", Nil}

\* C8: the 405 method restriction (a 405 response allowing POST) rejects a
\* request only when the method is GET and the selected operation is not a
\* query; a POST request selecting a mutation, and a GET request whose
\* document also holds a mutation but whose operationName selects a query,
\* are executed, and when execution returns data and no stage fails the
\* response has status 200 and carries that data.
C8_MethodRestriction ==
  \A r \in Reqs :
    /\ response[r].allow = "POST" =>
         /\ request[r].method = "GET"
         /\ SelectedOperation(r) # NoOperation
         /\ SelectedOperation(r).operation # "query"
    /\ Done(r) /\ MethodAllowsOperation(r) =>
         /\ Invoked(r, ExecuteFns)
         /\ response[r].allow # "POST"
         /\ rawError[r] = NoErr /\ ~IsNullish(result[r].data) =>
              /\ response[r].status = 200
              /\ response[r].body.hasResult
              /\ response[r].body.data = result[r].data

\* A GET request whose document holds a mutation and then a query, and whose
\* operationName selects the query, was executed and answered 200.
C8_Witness ==
  \E r \in Reqs :
    /\ Done(r) /\ MethodAllowsOperation(r)
    /\ request[r].method = "GET"
    /\ documentAST[r] = <<Operation("TestMutation", "mutation"),
                         Operation("TestQuery", "query")>>
    /\ params[r].operationName = "TestQuery"
    /\ response[r].status = 200
    /\ response[r].body.data = "data"

\* A POST request selecting a mutation was executed and answered 200.
C8_WitnessPost ==
  \E r \in Reqs :
    /\ Done(r) /\ MethodAllowsOperation(r)
    /\ request[r].method = "POST"
    /\ SelectedOperation(r).operation = "mutation"
    /\ response[r].status = 200

\* Parameter extraction succeeded for r and gave no query.
NoQuery(r) ==
  /\ Invoked(r, {"getGraphQLParams"})
  /\ paramsError[r] = NoErr
  /\ params[r] # NoParams
  /\ IsNullish(params[r].query)

\* C9 as stated: when parameter extraction succeeds but yields no query and
\* the IDE page is not to be shown, the response has status 400 and its body
\* is exactly the error 'Must provide query string.'; nothing is parsed,
\* validated or executed.
C9_Original ==
  \A r \in Reqs :
    Done(r) /\ NoQuery(r) /\ ~IDEWanted(r)
    => /\ response[r].status = 400
       /\ IsSingleError(response[r].body, MsgMustProvideQuery)
       /\ NothingRun(r)

\* C9 (amended): when parameter extraction succeeds but yields no query and
\* the IDE page is not to be shown, nothing is parsed, validated or executed;
\* the response has status 400 and its body is exactly the error 'Must
\* provide query string.' when the options resolved to an object with a
\* schema and the method is GET or POST; when options resolution failed, the
\* response is that of the failure, with status 500.
C9_NoQuery ==
  \A r \in Reqs :
    Done(r) /\ NoQuery(r) /\ ~IDEWanted(r)
    => /\ NothingRun(r)
       /\ OptionsResolved(r) /\ request[r].method \in {"GET", "POST"} =>
            /\ response[r].status = 400
            /\ IsSingleError(response[r].body, MsgMustProvideQuery)
       /\ ~OptionsResolved(r) =>
            /\ response[r].status = 500
            /\ IsSingleError(response[r].body, OptionsFailure(r).message)

\* A request whose body an earlier middleware left as a string gave no query
\* and was answered 400.
C9_Witness ==
  \E r \in Reqs :
    /\ Done(r) /\ NoQuery(r) /\ ~IDEWanted(r)
    /\ request[r].nodeBody.kind = "string"
    /\ request[r].method = "POST"
    /\ response[r].status = 400

\* A request without a query met an options function that threw: it was
\* answered 500 with the error of the options function.
C9_WitnessOptionsFailure ==
  \E r \in Reqs :
    /\ Done(r) /\ NoQuery(r) /\ ~IDEWanted(r)
    /\ options.yield[r].threw = PlainError(MsgOptionsThrew)
    /\ response[r].status = 500

\* Every call of the options function made for r so far came after the call
\* of getGraphQLParams.
OptionsCalledAfterParams(r) ==
  \A i \in 1..Len(calls[r]) :
    calls[r][i] = "options" => \E j \in 1..(i - 1) : calls[r][j] = "getGraphQLParams"

\* C10 as stated: the options function is called after getGraphQLParams has
\* completed, with the request, the response, the ctx and the parsed
\* parameters object.
C10_Original ==
  \A r \in Reqs :
    /\ OptionsCalledAfterParams(r)
    /\ \A i \in 1..Len(optionsCalls[r]) :
         /\ optionsCalls[r][i].params # NoParams
         /\ optionsCalls[r][i] = OptionsArgs(r, r, r, params[r])

\* C10 (amended): an options function is called in every run, after
\* getGraphQLParams has completed, with the request, the response and the ctx
\* of the run; it receives the parsed parameters object when parameter
\* extraction succeeded, and undefined in place of it when extraction failed.
C10_OptionsFunctionCall ==
  \A r \in Reqs :
    /\ OptionsCalledAfterParams(r)
    /\ \A i \in 1..Len(optionsCalls[r]) :
         optionsCalls[r][i] =
           OptionsArgs(r, r, r, IF paramsError[r] = NoErr THEN params[r] ELSE NoParams)
    /\ paramsError[r] = NoErr /\ params[r] # NoParams =>
         params[r] \in [query : STRING, variables : STRING,
                        operationName : STRING, raw : BOOLEAN]
    /\ Done(r) =>
         (Invoked(r, {"options"}) <=> IsFunction(options))
    /\ Invoked(r, {"options"}) <=> optionsCalls[r] # << >>

\* An options function was called with the parsed parameters of a request
\* that gave a query and an operation name.
C10_Witness ==
  \E r \in Reqs :
    /\ Done(r)
    /\ options.form = "function"
    /\ Len(optionsCalls[r]) = 1
    /\ optionsCalls[r][1].params = Params("{ query }", Null, "TestQuery", FALSE)


\* The place of a collaborator in the order of the stages.
StageRank(fn) ==
  CASE fn = "getGraphQLParams" -> 1
    [] fn = "options" -> 2
    [] fn = "validateSchema" -> 3
    [] fn \in ParseFns -> 4
    [] fn \in ValidateFns -> 5
    [] fn \in ExecuteFns -> 6
    [] OTHER -> 7

\* The collaborators of r were called in the order of the stages.
CalledInStageOrder(r) ==
  \A i, j \in 1..Len(calls[r]) :
    i < j => StageRank(calls[r][i]) < StageRank(calls[r][j])

\* Something was written as the body of r's response.
BodyWritten(r) == response[r].body.kind # "none"

\* C11: the collaborators are called in the order parameter extraction,
\* options resolution, parsing, validation, execution, extensions; execute is
\* invoked only after parameter extraction and options resolution have
\* succeeded and parsing and validation have given no errors; and the body is
\* written only when the run has finished all its stages.
C11_StageOrder ==
  \A r \in Reqs :
    /\ CalledInStageOrder(r)
    /\ Invoked(r, ExecuteFns) =>
         /\ Invoked(r, {"getGraphQLParams"})
         /\ getGraphQLParams(request[r]).threw = NoErr
         /\ OptionsFailure(r) = NoErr
         /\ Invoked(r, ParseFns) /\ documentAST[r] # NoDocument
         /\ Invoked(r, ValidateFns) /\ validationErrors[r] = << >>
    /\ BodyWritten(r) => Done(r)
    /\ pc[r] = "respond" => ~BodyWritten(r)

\* A run went through every stage, with an options function and an
\* extensions function, and wrote its response.
C11_Witness ==
  \E r \in Reqs :
    /\ Done(r) /\ BodyWritten(r)
    /\ calls[r] = <<"getGraphQLParams", "options", "validateSchema", "parse",
                    "validate", "execute", "extensions">>

\* The number of calls of r that went to one of fns.
CallCount(r, fns) == Cardinality({i \in 1..Len(calls[r]) : calls[r][i] \in fns})

\* C12: within one run, getGraphQLParams, the options function, the parse
\* function, the validate function and the execute function are each called
\* at most once, on every path.
C12_NoRetry ==
  \A r \in Reqs :
    /\ CallCount(r, {"getGraphQLParams"}) <= 1
    /\ CallCount(r, {"options"}) <= 1
    /\ Len(optionsCalls[r]) <= 1
    /\ CallCount(r, ParseFns) <= 1
    /\ CallCount(r, ValidateFns) <= 1
    /\ CallCount(r, ExecuteFns) <= 1

\* An error path: parameter extraction failed, the options function was
\* called once for pretty and the formatter, and the response was written.
C12_Witness ==
  \E r \in Reqs :
    /\ Done(r) /\ BodyWritten(r)
    /\ paramsError[r] # NoErr
    /\ options.yield[r].threw = NoErr /\ options.yield[r].value.isObject
    /\ calls[r] = <<"getGraphQLParams", "options">>


\* What resolving the options gives for r, by the options value alone.
OwnOptions(r) == resolveOptions(options.yield[r])

\* The response of r as r's own request, r's own options and the outcomes of
\* r's own collaborators determine it: nothing of another request, and nothing
\* of the form in which the options were given, enters it.
OwnResponse(r) ==
  LET own == OwnOptions(r)
      resolved == own.threw = NoErr
      od == own.value
      extracted == getGraphQLParams(request[r]).threw = NoErr
      formatter == IF resolved THEN FormatErrorFnOf(od, "formatError")
                   ELSE "formatError"
      isPretty == IF resolved THEN PrettyOf(od) ELSE FALSE
      show == /\ extracted /\ resolved
              /\ ~IsNullish(od.schema)
              /\ request[r].method \in {"GET", "POST"}
              /\ canDisplayGraphiQL(request[r], getGraphQLParams(request[r]).params)
              /\ GraphiqlOf(od) # "false"
      formatted == FormattedResult(formatter, result[r])
  IN IF show /\ rawError[r] = NoErr /\ ~Invoked(r, ExecuteFns)
     THEN Response(200, FALSE, "text/html", Nil, GraphiQLPage)
     ELSE Response(IF rawError[r] # NoErr THEN ReportedStatus(rawError[r])
                   ELSE FinalStatus(200, result[r]),
                   TRUE,
                   IF show THEN "text/html" ELSE "application/json",
                   rawError[r].headerAllow,
                   IF show THEN GraphiQLPageWith(formatted)
                   ELSE JsonBody(formatted, isPretty))


\* Everything the run of r holds: its request, its response and its local
\* variables.
RunState(r) ==
  <<request[r], response[r], params[r], paramsError[r], optionsData[r],
    showGraphiQL[r], formatErrorFn[r], pretty[r], documentAST[r],
    validationErrors[r], result[r], rawError[r], executeArgs[r],
    optionsCalls[r], calls[r]>>

\* C13: with two requests in flight at one middleware instance, a step of
\* one run changes nothing the other run holds and nothing of the options
\* value; each request's response is the one its own request, options and
\* collaborators determine; and an options function is called once for
\* every request, with that request, so that the pretty it returns for one
\* request is not the pretty of the other.
C13_NoSharedState ==
  /\ [](\A r \in Reqs :
         Done(r) =>
           /\ response[r] = OwnResponse(r)
           /\ response[r].body.kind = "json" =>
                response[r].body.pretty =
                  (OwnOptions(r).threw = NoErr /\ PrettyOf(OwnOptions(r).value))
           /\ IsFunction(options) =>
                /\ Len(optionsCalls[r]) = 1
                /\ optionsCalls[r][1].request = r)
  /\ [][/\ options' = options
        /\ \A r \in Reqs : pc'[r] = pc[r] => RunState(r)' = RunState(r)]_vars

\* Two requests were answered by one options function that asked for pretty
\* printing for the first only: the first got pretty text, the second did not.
C13_Witness ==
  /\ Done("r1") /\ Done("r2")
  /\ options.form = "function"
  /\ PrettyOf(options.yield["r1"].value)
  /\ options.yield["r2"].threw = NoErr /\ ~PrettyOf(options.yield["r2"].value)
  /\ response["r1"].body.kind = "json" /\ response["r1"].body.pretty
  /\ response["r2"].body.kind = "json" /\ ~response["r2"].body.pretty
  /\ response["r1"].status = 200 /\ response["r2"].status = 200


\* The body of r's response is the JSON text of a result with data or
\* errors, or the IDE page.
IsGraphQLResponse(r) ==
  \/ response[r].body.kind = "html"
  \/ /\ response[r].body.kind = "json"
     /\ response[r].body.keys \cap {"data", "errors"} # {}

\* The run of r ended with an error leaving the middleware.
Rejected(r) == pc[r] = "rejected"

\* The graphiql option that r's options yield carries an editorTheme that
\* renderGraphiQL refuses.
InvalidEditorTheme(r) ==
  /\ OwnOptions(r).threw = NoErr
  /\ renderGraphiQL(GraphiqlOptionsOf(OwnOptions(r).value)).threw # NoErr

\* C14 as stated: every run of the middleware, its collaborators returning
\* or throwing, comes to its end with a response written - the JSON text of a
\* result with data or errors, or the IDE page - whatever stage failed; and a
\* response once written is not written again.
C14_Original ==
  /\ \A r \in Reqs : (pc[r] = "getParams") ~> (Done(r) /\ IsGraphQLResponse(r))
  /\ [](\A r \in Reqs : Done(r) => IsGraphQLResponse(r))
  /\ [][\A r \in Reqs : BodyWritten(r) => response'[r] = response[r]]_vars

\* C14 (amended): every run of the middleware, its collaborators returning
\* or throwing, comes to its end; it ends with a response written - the JSON
\* text of a result with data or errors, or the IDE page - whatever stage
\* failed, unless the IDE page is to be shown and the editorTheme of the
\* graphiql option is invalid: then renderGraphiQL throws, the error leaves
\* the middleware and no body is written.  A response once written is not
\* written again.
C14_AlwaysResponds ==
  /\ \A r \in Reqs :
       (pc[r] = "getParams") ~>
         \/ Done(r) /\ IsGraphQLResponse(r)
         \/ Rejected(r) /\ ~BodyWritten(r)
  /\ [](\A r \in Reqs :
         /\ Done(r) => IsGraphQLResponse(r)
         /\ Rejected(r) =>
              /\ showGraphiQL[r]
              /\ InvalidEditorTheme(r)
              /\ rawError[r] = PlainError(MsgInvalidEditorTheme)
              /\ ~BodyWritten(r))
  /\ [][\A r \in Reqs : BodyWritten(r) => response'[r] = response[r]]_vars

\* The IDE page was to be shown with an editorTheme that is a number: the
\* run ended with the error of renderGraphiQL and without a body.
C14_WitnessRejected ==
  \E r \in Reqs :
    /\ Rejected(r)
    /\ optionsData[r].graphiqlOptions.given
    /\ optionsData[r].graphiqlOptions.value.editorTheme = JsNumber(1, FALSE)
    /\ response[r].body.kind = "none"

\* A run in which the options function threw after parameter extraction had
\* failed still ended with a JSON response.
C14_Witness ==
  \E r \in Reqs :
    /\ Done(r) /\ IsGraphQLResponse(r)
    /\ paramsError[r] # NoErr
    /\ options.yield[r].threw # NoErr
    /\ response[r].body.kind = "json"
    /\ response[r].body.keys = {"errors"}


\* The response of r reports errors.
IsErrorResponse(r) ==
  /\ Done(r)
  /\ response[r].body.hasResult
  /\ "errors" \in response[r].body.keys

\* The errors of r's response are field errors that the execution returned
\* in its result: the operation was chosen and run, and fields of it failed.
ReportsFieldErrors(r) ==
  /\ rawError[r] = NoErr
  /\ Invoked(r, ExecuteFns)
  /\ \E n \in 1..MaxErrors : result[r].errors = FieldErrors(n)

\* The class of the failure that r's response reports: a failure of options
\* resolution; a body that could not be parsed; an invalid schema; field
\* errors returned by the execution.  Every other failure (a missing query, a
\* syntax error, a validation error, a method not allowed, an operation that
\* could not be chosen, an exception of another kind) is of none of the four.
ErrorClass(r) ==
  IF OptionsFailure(r) # NoErr /\ ~SchemaNotLookedAt(r) THEN "options-resolution"
  ELSE IF ParseBody(DefaultedBody(request[r].nodeBody, request[r].koaBody),
                    request[r].stream).threw # NoErr THEN "parameter-parse"
  ELSE IF rawError[r].message = MsgSchemaValidation THEN "schema-validation"
  ELSE IF ReportsFieldErrors(r) THEN "field-error"
  ELSE "other"

C15_WitnessFieldErrors ==
  /\ IsErrorResponse("r1") /\ IsErrorResponse("r2")
  /\ ErrorClass("r1") = "field-error" /\ ErrorClass("r2") = "field-error"
  /\ result["r1"].data = "data" /\ response["r1"].status = 200
  /\ result["r2"].data = Null /\ response["r2"].status = 500


\* The error formatter an OptionsData value configures: customFormatErrorFn,
\* else the deprecated formatError option, else formatError of graphql-js.
FormatterBy(od) ==
  IF ~IsNullish(od.customFormatErrorFn) THEN od.customFormatErrorFn
  ELSE IF ~IsNullish(od.formatError) THEN od.formatError
  ELSE "formatError"

\* Every error of r's response was formatted by formatter.
AllFormattedBy(r, formatter) ==
  \A i \in 1..Len(response[r].body.errors) :
    response[r].body.errors[i].by = formatter

\* C16: every error in a response body is formatted by the formatter the
\* options configure - customFormatErrorFn, else the deprecated formatError
\* option, else formatError of graphql-js - for the errors of the normal path
\* and for parameter-parse errors alike, provided options resolution
\* succeeded; when it failed, the errors are formatted by formatError of
\* graphql-js.
C16_ConfiguredFormatter ==
  \A r \in Reqs :
    Done(r) /\ response[r].body.hasResult =>
      IF OwnOptions(r).threw = NoErr
      THEN AllFormattedBy(r, FormatterBy(OwnOptions(r).value))
      ELSE AllFormattedBy(r, "formatError")

\* Parameter extraction failed, the options name both formatters, and the
\* error of the response was formatted by customFormatErrorFn.
C16_Witness ==
  \E r \in Reqs :
    /\ Done(r) /\ paramsError[r] # NoErr
    /\ OwnOptions(r).threw = NoErr
    /\ OwnOptions(r).value.customFormatErrorFn = "customFormatErrorFn"
    /\ OwnOptions(r).value.formatError = "deprecatedFormatError"
    /\ Len(response[r].body.errors) = 1
    /\ response[r].body.errors[1].by = "customFormatErrorFn"

\* A query failed validation, the options name the deprecated formatter only,
\* and the errors of the response were formatted by it.
C16_WitnessDeprecated ==
  \E r \in Reqs :
    /\ Done(r) /\ Len(validationErrors[r]) = 2
    /\ IsNullish(OwnOptions(r).value.customFormatErrorFn)
    /\ Len(response[r].body.errors) = 2
    /\ response[r].body.errors[2].by = "deprecatedFormatError"


\* C17: the context value handed to the execute function is the context of
\* the options when they give one, and the Koa ctx when they give none
\* (undefined or null); nothing is handed over before execution.
C17_ContextValue ==
  \A r \in Reqs :
    IF Invoked(r, ExecuteFns)
    THEN executeArgs[r].contextValue =
           IF OwnOptions(r).value.context \in {Nil, Null}
           THEN "ctx" ELSE OwnOptions(r).value.context
    ELSE executeArgs[r] = NoExecuteArgs

\* The options gave null as context, and execute was called with the Koa ctx.
C17_Witness ==
  \E r \in Reqs :
    /\ Invoked(r, {"execute"})
    /\ OwnOptions(r).value.context = Null
    /\ executeArgs[r].contextValue = "ctx"

\* The options gave a context, and execute was called with it.
C17_WitnessGiven ==
  \E r \in Reqs :
    /\ Invoked(r, ExecuteFns)
    /\ OwnOptions(r).value.context = "testValue"
    /\ executeArgs[r].contextValue = "testValue"


\* The options value resolves, for r, to an OptionsData object.
YieldsOptionsData(r) ==
  /\ options.yield[r].threw = NoErr
  /\ options.yield[r].value.isObject

\* C18: for the same OptionsData value and the same request, the response is
\* the same whether the options are given as the object, as a function
\* returning it, or as a function returning a Promise for it: in each form
\* the run works with that very OptionsData value, no failure of options
\* resolution is reported, and the status and the body are those the request,
\* the OptionsData value and the outcomes of the collaborators determine,
\* the form not entering.
C18_FormsAgree ==
  \A r \in Reqs :
    Done(r) /\ YieldsOptionsData(r) =>
      /\ rawError[r].message # MsgOptionsMustReturnObject
      /\ getGraphQLParams(request[r]).threw = NoErr =>
           optionsData[r] = options.yield[r].value
      /\ response[r] = OwnResponse(r)

\* A function returning a Promise for the options answered a query with
\* status 200 and the data.
C18_Witness ==
  \E r \in Reqs :
    /\ Done(r) /\ YieldsOptionsData(r)
    /\ options.form = "asyncFunction"
    /\ response[r].status = 200
    /\ response[r].body.kind = "json"
    /\ response[r].body.data = "data"

\* The options object itself answered a query with status 200 and the data.
C18_WitnessObject ==
  \E r \in Reqs :
    /\ Done(r) /\ YieldsOptionsData(r)
    /\ options.form = "object"
    /\ response[r].status = 200
    /\ response[r].body.kind = "json"
    /\ response[r].body.data = "data"


\* What looking a parameter up gives: the value of the URL query string when
\* it has one, else the value of the body, else null.
LookedUp(urlValue, bodyValue) ==
  IF urlValue \notin {Nil, Null} THEN urlValue
  ELSE IF bodyValue \notin {Nil, Null} THEN bodyValue
  ELSE Null

\* The parameters the POST body of r gives, once it is parsed.
BodyData(r) ==
  ParseBody(DefaultedBody(request[r].nodeBody, request[r].koaBody),
            request[r].stream).data

\* C19: each of query, variables and operationName is looked up in the URL
\* query string first and in the POST body only when the URL does not give
\* it: a parameter given in both has the value of the URL, and one request
\* may take its parameters from both places.
C19_LookupOrder ==
  \A r \in Reqs :
    params[r] # NoParams =>
      /\ params[r].query = LookedUp(request[r].url.query, BodyData(r).query)
      /\ params[r].variables =
           LookedUp(request[r].url.variables, BodyData(r).variables)
      /\ params[r].operationName =
           LookedUp(request[r].url.operationName, BodyData(r).operationName)

\* A request took its query from the body and its variables from the URL,
\* which the body gave too.
C19_Witness ==
  \E r \in Reqs :
    /\ Done(r)
    /\ request[r].url.query = Null
    /\ BodyData(r).variables = "bodyVariables"
    /\ params[r].query = "{ bodyQuery }"
    /\ params[r].variables = "urlVariables"

\* C20: before extraction the body of the raw (Node) request is set to the
\* body of the Koa request only when it is undefined or null, and a body
\* already there is left as it is; the body of the Koa request and the rest of
\* the request are not touched, and a body an earlier middleware parsed into
\* an object is the one the parameters are taken from.
C20_PreParsedBody ==
  [][\A r \in Reqs :
       IF pc[r] = "getParams" /\ pc'[r] # "getParams"
       THEN /\ request'[r] =
                 [request[r] EXCEPT !.nodeBody =
                    IF request[r].nodeBody.kind \in {"none", "null"}
                    THEN request[r].koaBody ELSE request[r].nodeBody]
       ELSE /\ request'[r] = request[r]
            /\ /\ pc[r] = "awaitParams" /\ pc'[r] # "awaitParams"
               /\ request[r].nodeBody.kind = "object"
               => /\ params'[r] # NoParams
                  /\ params'[r].query =
                       LookedUp(request[r].url.query, request[r].nodeBody.query)]_vars

\* The Node request had no body: the body an earlier middleware left on the
\* Koa request became its body, and the query was taken from it.
C20_Witness ==
  \E r \in Reqs :
    /\ Done(r)
    /\ request[r].koaBody = QueryBody
    /\ request[r].nodeBody = request[r].koaBody
    /\ request[r].url.query = Null
    /\ params[r].query = "{ bodyQuery }"

\* The Node request had a body of its own next to the one of the Koa
\* request, and kept it.
C20_WitnessKept ==
  \E r \in Reqs :
    /\ Done(r)
    /\ request[r].koaBody = FullBody
    /\ request[r].nodeBody = QueryBody
    /\ params[r].variables = Null


\* C21: when the pretty option is true, every JSON response is
\* pretty-printed, an error response as much as a result; when pretty is false
\* or left out, every JSON response is compact.
C21_PrettyPrinting ==
  \A r \in Reqs :
    Done(r) /\ response[r].body.kind = "json" /\ OwnOptions(r).threw = NoErr =>
      response[r].body.pretty = (OwnOptions(r).value.pretty = "true")

\* An error response was pretty-printed: the body of the request did not
\* parse, and the options ask for pretty printing.
C21_Witness ==
  \E r \in Reqs :
    /\ Done(r)
    /\ OwnOptions(r).threw = NoErr
    /\ OwnOptions(r).value.pretty = "true"
    /\ response[r].status = 400
    /\ response[r].body.kind = "json"
    /\ response[r].body.keys = {"errors"}
    /\ response[r].body.pretty

\* A result was written compact: the options do not name pretty.
C21_WitnessCompact ==
  \E r \in Reqs :
    /\ Done(r)
    /\ OwnOptions(r).threw = NoErr
    /\ OwnOptions(r).value.pretty = Nil
    /\ response[r].status = 200
    /\ response[r].body.kind = "json"
    /\ ~response[r].body.pretty


\* The request of r gives the raw parameter, in its URL or in its body.
RawProvided(r) == (~IsNullish(request[r].url.raw)) \/ BodyData(r).raw

\* The options of r resolve and enable the IDE.
GraphiqlEnabled(r) ==
  OwnOptions(r).threw = NoErr /\ OwnOptions(r).value.graphiql = "true"

\* C22: with the graphiql option enabled, a request that gives the raw
\* parameter is always answered with JSON and never with the IDE page,
\* whether or not it prefers HTML.
C22_RawGivesJson ==
  \A r \in Reqs :
    Done(r) /\ GraphiqlEnabled(r) /\ RawProvided(r) =>
      /\ response[r].body.kind = "json"
      /\ response[r].type = "application/json"

\* A browser gave the raw parameter with its query, the IDE being enabled,
\* and got the result as JSON.
C22_Witness ==
  \E r \in Reqs :
    /\ Done(r)
    /\ GraphiqlEnabled(r)
    /\ request[r].acceptsHtml
    /\ ~IsNullish(request[r].url.raw)
    /\ response[r].status = 200
    /\ response[r].body.kind = "json"
    /\ "data" \in response[r].body.keys

\* The raw parameter came in the body of a browser's request without a
\* query: the answer is JSON, not the IDE page.
C22_WitnessBody ==
  \E r \in Reqs :
    /\ Done(r)
    /\ GraphiqlEnabled(r)
    /\ request[r].acceptsHtml
    /\ IsNullish(request[r].url.raw)
    /\ request[r].stream = RawBody
    /\ response[r].body.kind = "json"


\* graphqlHTTP was called without options.
NoOptionsGiven == options.form \in {"undefined", "null"}

\* C23: graphqlHTTP called with undefined or null throws the error 'GraphQL
\* middleware requires options.' in the call itself: no middleware is
\* returned, and no request is ever handled.  With options it does not throw.
C23_RequiresOptions ==
  /\ NoOptionsGiven =>
       /\ ~middleware.returned
       /\ middleware # NotConstructed =>
            middleware.threw = PlainError(MsgRequiresOptions)
       /\ \A r \in Reqs :
            /\ pc[r] \in {"arrived", "idle"}
            /\ calls[r] = << >>
            /\ optionsCalls[r] = << >>
            /\ response[r] = NewResponse
  /\ ~NoOptionsGiven => middleware.threw = NoErr

\* graphqlHTTP(null) has thrown, a request waiting.
C23_Witness ==
  /\ options.form = "null"
  /\ middleware.threw.message = MsgRequiresOptions
  /\ \E r \in Reqs : pc[r] = "arrived"

\* graphqlHTTP() has thrown.
C23_WitnessUndefined ==
  /\ options.form = "undefined"
  /\ middleware.threw.message = MsgRequiresOptions


\* The rules the options of r add to the specified ones.
AddedRules(r) ==
  IF OwnOptions(r).value.validationRules.given
  THEN OwnOptions(r).value.validationRules.rules ELSE << >>

\* The rules of r's options hold one that r's document violates.
ViolatesAddedRule(r) ==
  \E i \in 1..Len(AddedRules(r)) : AddedRules(r)[i] = AlwaysInvalidRule

\* Validation found r's document to violate a specified rule.
ViolatesSpecifiedRule(r) ==
  \E i \in 1..Len(validationErrors[r]) :
    validationErrors[r][i].message # MsgAlwaysInvalid

\* C24: the validate function is always given the rules of the GraphQL
\* specification followed by the rules of the validationRules option, which
\* add to them and never replace them: a document that violates a specified
\* rule or an added rule is answered 400 with the validation errors, and is
\* not executed.
C24_AdditionalRules ==
  \A r \in Reqs :
    Invoked(r, ValidateFns) =>
      /\ validateArgs[r] = specifiedRules \o AddedRules(r)
      /\ Done(r) /\ Invoked(r, {"validate"})
           /\ (ViolatesAddedRule(r) \/ ViolatesSpecifiedRule(r)) =>
             /\ response[r].status = 400
             /\ response[r].body.keys = {"errors"}
             /\ ~Invoked(r, ExecuteFns)
             /\ ViolatesAddedRule(r) =>
                  \E i \in 1..Len(response[r].body.errors) :
                    response[r].body.errors[i].message = MsgAlwaysInvalid

\* A document that the specified rules accept was rejected for the added
\* rule.
C24_Witness ==
  \E r \in Reqs :
    /\ Done(r)
    /\ Invoked(r, {"validate"})
    /\ validateArgs[r] = specifiedRules \o <<AlwaysInvalidRule>>
    /\ ~ViolatesSpecifiedRule(r)
    /\ response[r].status = 400
    /\ Len(response[r].body.errors) = 1
    /\ response[r].body.errors[1].message = MsgAlwaysInvalid

\* A document was rejected for a specified rule, an added rule being given
\* that reports its error as well.
C24_WitnessSpecified ==
  \E r \in Reqs :
    /\ Done(r)
    /\ Invoked(r, {"validate"})
    /\ ViolatesAddedRule(r)
    /\ ViolatesSpecifiedRule(r)
    /\ response[r].status = 400
    /\ Len(response[r].body.errors) > 1


\* The parameters of r's request cannot be extracted.
ExtractionFails(r) == getGraphQLParams(request[r]).threw # NoErr

\* The error the extraction of r's parameters fails with.
ExtractionError(r) == getGraphQLParams(request[r]).threw

\* No error of r's response has this message.
NotReported(r, message) ==
  \A i \in 1..Len(response[r].body.errors) :
    response[r].body.errors[i].message # message

\* C25: when the extraction of the parameters fails and the resolution of the
\* options in the failure handler fails too, the response reports the error of
\* the options resolution, with its status, and the parse error is gone.
C25_OptionsErrorWins ==
  \A r \in Reqs :
    Done(r) /\ ExtractionFails(r) /\ OwnOptions(r).threw # NoErr =>
      /\ IsSingleError(response[r].body, OwnOptions(r).threw.message)
      /\ response[r].status = ReportedStatus(OwnOptions(r).threw)
      /\ NotReported(r, ExtractionError(r).message)

\* The body was not valid JSON and the options function threw an error with
\* a status property of 403: the response is that error's, with status 500.
C25_Witness ==
  \E r \in Reqs :
    /\ Done(r)
    /\ request[r].stream = InvalidJSONBody
    /\ paramsError[r] = httpError(400, MsgInvalidJSONBody, << >>, Nil)
    /\ options.yield[r].threw.status = 403
    /\ response[r].status = 500
    /\ IsSingleError(response[r].body, MsgOptionsThrew)

\* C26: when the extraction of the parameters fails, the options are
\* resolved once, without the parameters; pretty and the error formatter of
\* the resolved options shape the error response, which reports the
\* extraction error; and on every path the options are resolved once per
\* request, the second resolution never following the first.
C26_ResolvedOnce ==
  \A r \in Reqs :
    Done(r) =>
      /\ IsFunction(options) =>
           /\ Len(optionsCalls[r]) = 1
           /\ CallCount(r, {"options"}) = 1
           /\ optionsCalls[r][1].params =
                (IF ExtractionFails(r) THEN NoParams ELSE params[r])
      /\ ExtractionFails(r) /\ OwnOptions(r).threw = NoErr =>
           /\ response[r].status = ExtractionError(r).status
           /\ IsSingleError(response[r].body, ExtractionError(r).message)
           /\ response[r].body.pretty = (OwnOptions(r).value.pretty = "true")
           /\ AllFormattedBy(r, FormatterBy(OwnOptions(r).value))
           /\ optionsData[r] = NoOptionsData

\* The body was not valid JSON: the options function was called once,
\* without parameters, and the 400 is pretty-printed and formatted as the
\* options it returned ask.
C26_Witness ==
  \E r \in Reqs :
    /\ Done(r)
    /\ request[r].stream = InvalidJSONBody
    /\ options.form = "function"
    /\ optionsCalls[r] = <<OptionsArgs(r, r, r, NoParams)>>
    /\ OwnOptions(r).value.pretty = "true"
    /\ OwnOptions(r).value.customFormatErrorFn = "customFormatErrorFn"
    /\ response[r].status = 400
    /\ response[r].body.pretty
    /\ response[r].body.errors =
         <<FormatWith("customFormatErrorFn", GraphQLError(MsgInvalidJSONBody))>>


\* C27: when the resolution of the options fails, the error response is
\* written with the defaults the run started with: its errors are formatted
\* by formatError of graphql-js and its JSON is compact, whatever the options
\* resolved for another request ask.
C27_DefaultsOnOptionsFailure ==
  \A r \in Reqs :
    Done(r) /\ OwnOptions(r).threw # NoErr =>
      /\ IsSingleError(response[r].body, OwnOptions(r).threw.message)
      /\ ~response[r].body.pretty
      /\ AllFormattedBy(r, "formatError")
      /\ pretty[r] = FALSE
      /\ formatErrorFn[r] = "formatError"

\* The options function threw for one request, whose error response is
\* compact, and asked for pretty printing for the other, whose response is
\* pretty-printed.
C27_Witness ==
  \E r, q \in Reqs :
    /\ Done(r) /\ Done(q)
    /\ OwnOptions(r).threw # NoErr
    /\ response[r].status = 500
    /\ response[r].body.errors =
         <<FormatWith("formatError", GraphQLError(MsgOptionsThrew))>>
    /\ ~response[r].body.pretty
    /\ OwnOptions(q).threw = NoErr
    /\ response[q].body.kind = "json"
    /\ response[q].body.pretty


\* The execution of r's operation returned, and nothing threw after it: the
\* response is written from its result.
ExecutionReturned(r) == Invoked(r, ExecuteFns) /\ rawError[r] = NoErr

\* C28: a JSON response with the status 200 always carries data that is not
\* null; when the execution returns a result whose data is null or absent,
\* the status is 500 instead of 200, and the errors of the result are in the
\* body.
C28_DataOrServerError ==
  \A r \in Reqs :
    Done(r) =>
      /\ response[r].body.kind = "json" /\ response[r].status = 200 =>
           /\ "data" \in response[r].body.keys
           /\ ~IsNullish(response[r].body.data)
      /\ ExecutionReturned(r) /\ IsNullish(result[r].data) =>
           /\ response[r].status = 500
           /\ response[r].body.hasResult
           /\ response[r].body.errors = FormatErrors(formatErrorFn[r], result[r].errors)
           /\ response[r].body.errors # << >>
      /\ ExecutionReturned(r) /\ ~IsNullish(result[r].data) =>
           response[r].status = 200

\* The execution returned null data with the error of a non-null top-level
\* field: the JSON response has the status 500, the null data and the error.
C28_Witness ==
  \E r \in Reqs :
    /\ Done(r)
    /\ ExecutionReturned(r)
    /\ result[r].data = Null
    /\ response[r].status = 500
    /\ response[r].body.kind = "json"
    /\ response[r].body.keys = {"data", "errors"}
    /\ response[r].body.errors[1].message = "field error 1"

\* The document held several operations and the request named none: the
\* execution returned no data, and the status is 500.
C28_WitnessNoOperationName ==
  \E r \in Reqs :
    /\ Done(r)
    /\ ExecutionReturned(r)
    /\ result[r].data = Nil
    /\ Len(documentAST[r]) > 1
    /\ response[r].status = 500
    /\ IsSingleError(response[r].body, MsgMustProvideOperationName)


\* Every slash of text has a backslash directly in front of it.
SlashesEscaped(text) ==
  \A i \in 1..Len(text) : text[i] = "/" => i > 1 /\ text[i - 1] = "\\"

\* text holds the start of a closing tag: a '<' directly followed by a '/'.
HoldsClosingTag(text) ==
  \E i \in 1..Len(text) : text[i] = "<" /\ i < Len(text) /\ text[i + 1] = "/"

\* The number of slashes in text.
Slashes(text) == Cardinality({i \in 1..Len(text) : text[i] = "/"})

\* text without the backslash in front of each of its slashes.
WithoutSlashEscapes(text) ==
  SelectSeq([i \in 1..Len(text) |->
               IF text[i] = "\\" /\ i < Len(text) /\ text[i + 1] = "/"
               THEN "drop" ELSE text[i]],
            LAMBDA c : c # "drop")

\* C29: safeSerialize gives the text undefined for null and undefined, and
\* for every other value its JSON encoding with a backslash put in front of
\* every slash: no slash of its output lacks the backslash, so the output
\* never holds '</', the start of '</script>'.
C29_SafeSerialize ==
  rendered # NotRendered /\ rendered.threw = NoErr =>
    LET data == renderArgs.subscriptionEndpoint
        text == rendered.page.subscriptionEndpoint
    IN /\ data.type \in {"null", "undefined"} => text = TextUndefined
       /\ data.type \notin {"null", "undefined"} =>
            /\ WithoutSlashEscapes(text) = JSONStringify(data)
            /\ Len(text) = Len(JSONStringify(data)) + Slashes(JSONStringify(data))
       /\ data.type = "string" => Slashes(text) = Slashes(data.chars)
       /\ SlashesEscaped(text)
       /\ ~HoldsClosingTag(text)

\* A string holding a closing tag and a second slash was serialized.
C29_Witness ==
  /\ rendered # NotRendered
  /\ rendered.threw = NoErr
  /\ renderArgs.subscriptionEndpoint = JsString(<<"<", "/", "/">>)
  /\ rendered.page.subscriptionEndpoint =
       <<"\"", "<", "\\", "/", "\\", "/", "\"">>

\* null was serialized.
C29_WitnessNull ==
  /\ rendered # NotRendered
  /\ rendered.threw = NoErr
  /\ renderArgs.subscriptionEndpoint = JsNull
  /\ rendered.page.subscriptionEndpoint = TextUndefined

\* v is a string that is not empty.
NonEmptyString(v) == v.type = "string" /\ v.chars # << >>

\* C30: getEditorThemeParams puts every editorTheme value into one of four
\* classes: null or undefined gives no theme; a string gives the theme of
\* that name with the stylesheet of the CDN; an object whose name and url are
\* strings that are not empty gives that name with a link to that url; every
\* other value makes it throw 'invalid parameter "editorTheme"', and
\* renderGraphiQL gives no page.
C30_EditorTheme ==
  rendered # NotRendered =>
    LET editorTheme == renderArgs.editorTheme
    IN CASE editorTheme.type \in {"undefined", "null"} ->
              /\ rendered.threw = NoErr
              /\ rendered.editorTheme = NoEditorTheme
              /\ rendered.page.themeLink = NoLink
         [] editorTheme.type = "string" ->
              /\ rendered.threw = NoErr
              /\ rendered.editorTheme.name = editorTheme.chars
              /\ rendered.editorTheme.link.href[1] =
                   "https://cdnjs.cloudflare.com/ajax/libs/codemirror/"
              /\ rendered.editorTheme.link.href[2] = CODE_MIRROR_VERSION
              /\ SubSeq(rendered.editorTheme.link.href, 4,
                        Len(rendered.editorTheme.link.href) - 1) = editorTheme.chars
              /\ rendered.page.themeLink = rendered.editorTheme.link
         [] /\ editorTheme.type = "object"
            /\ NonEmptyString(editorTheme.name)
            /\ NonEmptyString(editorTheme.url) ->
              /\ rendered.threw = NoErr
              /\ rendered.editorTheme.name = editorTheme.name.chars
              /\ rendered.editorTheme.link.href = editorTheme.url.chars
              /\ rendered.page.themeLink = rendered.editorTheme.link
         [] OTHER ->
              /\ rendered.threw.message = MsgInvalidEditorTheme
              /\ rendered.editorTheme = NoEditorTheme
              /\ rendered.page = NoPage

\* An object with a name and an empty url was refused, and no page was made.
C30_Witness ==
  /\ rendered # NotRendered
  /\ renderArgs.editorTheme = JsObject(JsString(<<"s">>), JsString(<< >>))
  /\ rendered.threw.message = MsgInvalidEditorTheme
  /\ rendered.page = NoPage

\* An object with a name and a url gave the theme of that name.
C30_WitnessObject ==
  /\ rendered # NotRendered
  /\ renderArgs.editorTheme = JsObject(JsString(<<"s">>), JsString(<<"s">>))
  /\ rendered.threw = NoErr
  /\ rendered.editorTheme = EditorTheme(<<"s">>, Link(<<"s">>))

====
